---- MODULE Spec2Model ----
(***************************************************************************)
(* A model of the research engine of mikeboe/research-helper               *)
(* (package research: ResearchEngine.Run and its five phases).             *)
(*                                                                         *)
(* The main goroutine of Run is the process `pc`; the goroutines spawned   *)
(* by sourcePhase and acquireAndIndexPhase are the processes `qtask` and   *)
(* `task`.  The LLM, the arXiv feed, the scraper, the embedder and the     *)
(* database are the environment: every call to them is a nondeterministic  *)
(* choice among the outcomes the call can have.                            *)
(***************************************************************************)
EXTENDS Naturals, Integers, Sequences, FiniteSets, TLC

VARIABLES
    pc,             \* position of the goroutine running ResearchEngine.Run
    State,          \* *ResearchState (e.State), the mutex State.Mu included
    gen,            \* the frame of the running generateWithRetry call
    queries,        \* planPhase's result
    qtask,          \* sourcePhase: the goroutine of each query
    allResults,     \* sourcePhase: the list shared under the local mutex
    searchResults,  \* sourcePhase's result
    relevantItems,  \* filterPhase's result, the items of acquireAndIndexPhase
    task,           \* acquireAndIndexPhase: the goroutine of each item
    semaphore,      \* acquireAndIndexPhase: number of elements in the channel
    summaries,      \* acquireAndIndexPhase: the phase-local summaries
    hook,           \* OnStateUpdate: number of calls and the last snapshot
    runResult,      \* what Run returned: the report or the error
    reflection,     \* what reflectPhase returned
    stats,          \* history: phases run, LLM calls by kind
    claims,         \* history: per URL, how many tasks passed the claim step
    ctx,            \* the context passed to Run: "live" or "cancelled"
    job,            \* the worker's job: its row, its error logs, the DB's mode
    chat,           \* a SendMessage call: its stream and the messages table
    store,          \* the vector store: a call of it and the SQL it issued
    mcp             \* the /mcp endpoint: its session table and its last reply

vars == <<pc, State, gen, queries, qtask, allResults, searchResults,
          relevantItems, task, semaphore, summaries, hook, runResult,
          reflection, stats, claims, ctx, job, chat, store, mcp>>

---------------------------------------------------------------------------
(* Bounds of the model and constants of the program *)

MaxIterBound == 2   \* Run is explored for MaxIterations in 0..MaxIterBound
MaxQueries == 2     \* longest query list the planning LLM answers with
MaxScores == 1      \* longest score list the filtering LLM answers with

maxRetries == 3
SemaphoreWidth == 3
RelevanceThreshold == 7

Range(s) == {s[i] : i \in 1..Len(s)}

\* Sequences over S of length lo..hi
SeqsOf(S, lo, hi) == UNION {[1..n -> S] : n \in lo..hi}

---------------------------------------------------------------------------
(* The data of a run *)

Topic == "LoRA fine-tuning"

Queries == {"qa"}

\* An entry of the arXiv Atom feed as SearchArxiv formats it: the title, the
\* summary and the first application/pdf link ("" when the entry has none).
Feed ==
    { [Title |-> "T1", Summary |-> "s1", Link |-> "u1"],
      [Title |-> "T2", Summary |-> "s2", Link |-> ""] }

\* The text SearchArxiv returns: one "# Title: ..." block per entry, or the
\* sentinel line when the feed has no entry.
ArxivText(query, entries) ==
    IF entries = <<>>
    THEN [blocks |-> <<>>, head |-> "No results found for query: " \o query]
    ELSE [blocks |-> entries, head |-> ""]

RECURSIVE Titled(_)
\* the results of a list whose title is not empty, in order
Titled(rs) ==
    IF rs = <<>> THEN <<>>
    ELSE (IF Head(rs).Title # "" THEN <<Head(rs)>> ELSE <<>>) \o Titled(Tail(rs))

\* parseArxivOutput: strings.Split(content, "# Title: ") gives the text before
\* the first delimiter (head) and one part per block; a blank part is skipped;
\* the first line of a part is the title, the summary and the link are what
\* the two regular expressions find (empty when they do not match); a part
\* with an empty title gives no result.
parseArxivOutput(content) ==
    LET headPart == IF content.head = "" THEN <<>>
                    ELSE <<[Title |-> content.head, URL |-> "", Snippet |-> ""]>>
        blockPart == [i \in 1..Len(content.blocks) |->
                        [Title |-> content.blocks[i].Title,
                         URL |-> content.blocks[i].Link,
                         Snippet |-> content.blocks[i].Summary]]
    IN Titled(headPart \o blockPart)

---------------------------------------------------------------------------
(* The LLM and generateWithRetry *)

NoContent == [json |-> FALSE, queries |-> <<>>, scores |-> <<>>]

\* What one LLM.GenerateContent call gives: an error, a response without
\* choices, or a response whose first choice has the given content.
LLMFailures ==
    { [kind |-> "error", content |-> NoContent],
      [kind |-> "nochoices", content |-> NoContent] }

LLMAnswers(contents) == {[kind |-> "content", content |-> c] : c \in contents}

\* The contents the planning LLM may answer with: text that is not JSON, or a
\* JSON object with a (possibly empty or missing) list of queries.
PlanContents(maxLen) ==
    {NoContent} \cup
    {[json |-> TRUE, queries |-> qs, scores |-> <<>>] : qs \in SeqsOf(Queries, 0, maxLen)}

\* A validator that asks for JSON and nothing else.
planValidatorJSONOnly(content) ==
    IF ~content.json THEN "json parse error" ELSE "nil"

\* The validator planPhase passes to generateWithRetry.
planValidator(content) ==
    IF ~content.json THEN "json parse error"
    ELSE IF Len(content.queries) = 0 THEN "empty queries list"
    ELSE "nil"

\* The validator filterPhase passes to generateWithRetry.
filterValidator(content) ==
    IF ~content.json THEN "json parse error" ELSE "nil"

IdleGen ==
    [status |-> "idle", i |-> 0, calls |-> 0, warns |-> 0, content |-> NoContent]

\* The frame on entry of generateWithRetry.
NewGen == [IdleGen EXCEPT !.status = "running"]

\* A loop that allows one attempt more than maxRetries.
MoreAttemptsInclusive(i) == i + 1 <= maxRetries

\* Line 79: the loop goes on after the failed attempt i (counted from 0).
MoreAttempts(i) == i + 1 < maxRetries

\* A call that takes the context returns an error once the context is
\* cancelled; GenerateContent is such a call (lines 85, 526, 553).
CtxAllows(resp) == ctx = "live" \/ resp.kind = "error"

\* One iteration of generateWithRetry's loop with the LLM answering resp and the
\* validator answering verr for its content, and the return that follows it.
generateWithRetry(g, resp, verr) ==
    LET warned == IF g.i > 0 THEN g.warns + 1 ELSE g.warns
        err == IF resp.kind = "error" THEN "llm generation failed"
               ELSE IF resp.kind = "nochoices" THEN "llm returned no choices"
               ELSE IF verr # "nil" THEN "validation failed"
               ELSE "nil"
        called == [g EXCEPT !.calls = @ + 1, !.warns = warned]
    IN IF err = "nil"
       THEN [called EXCEPT !.status = "ok", !.content = resp.content]
       ELSE IF MoreAttempts(g.i)
       THEN [called EXCEPT !.i = @ + 1]
       ELSE [called EXCEPT !.i = @ + 1, !.status = "failed"]

---------------------------------------------------------------------------
(* ResearchEngine.Run *)

\* NewEngine's state; MaxIterations is a field the caller may set before Run.
NewState(maxIterations) ==
    [Topic |-> "", CollectionName |-> "thesis_db", ProcessedURLs |-> {},
     AccumulatedFacts |-> <<>>, IndexedItems |-> <<>>, Iteration |-> 0,
     MaxIterations |-> maxIterations, Mu |-> 0]

NoTasks == <<>>

IdleStats ==
    [plans |-> 0, sources |-> 0, filters |-> 0, acquires |-> 0, reflects |-> 0,
     reports |-> 0, stop |-> FALSE]

NoReflection == [called |-> FALSE, content |-> "", shouldContinue |-> FALSE, err |-> "nil"]

\* The engine runs without a worker (the command line's use of it).
NoJob == [status |-> "none"]

\* No SendMessage call is under way.
NoChat == [pc |-> "none"]

\* No call of the vector store is under way.
NoStore == [pc |-> "none"]

\* The /mcp endpoint before its first request: mcpSessions is empty
\* (handler.go:21-24).
NoSessions ==
    [sessions |-> {},
     generated |-> 0,
     requests |-> 0,
     toolRuns |-> 0,
     last |-> [method |-> "none", header |-> "", status |-> 0, code |-> 0,
               respHeader |-> "", dispatched |-> FALSE]]

\* A database that may reject any write.
DbOutcomesUnreliable == BOOLEAN

\* What a write to the database gives: TRUE when it is accepted.  The writes
\* of a job fail only when the job's database is in the faulty mode.
DbOutcomes == IF job # NoJob /\ job.faults THEN BOOLEAN ELSE {TRUE}

Init ==
    /\ pc = "init"
    /\ State \in {NewState(m) : m \in 0..MaxIterBound}
    /\ gen = IdleGen
    /\ queries = <<>>
    /\ qtask = NoTasks
    /\ allResults = <<>>
    /\ searchResults = <<>>
    /\ relevantItems = <<>>
    /\ task = NoTasks
    /\ semaphore = 0
    /\ summaries = <<>>
    /\ hook = [calls |-> 0, last |-> NewState(0)]
    /\ runResult = [err |-> "nil", report |-> ""]
    /\ reflection = NoReflection
    /\ stats = IdleStats
    /\ claims = [u \in {} |-> 0]
    /\ ctx = "live"
    /\ job = NoJob
    /\ chat = NoChat
    /\ store = NoStore
    /\ mcp = NoSessions

\* The hook runWorker registers (service.go:501-515): the state is written to
\* the job's row; a failed write is logged and nothing else happens.  Without
\* a worker the engine's hook is the caller's.
SaveState(state) ==
    \E ok \in DbOutcomes :
        job' = IF job = NoJob \/ ~ok THEN job
               ELSE [job EXCEPT !.state = [set |-> TRUE, value |-> state]]

\* e.OnStateUpdate(*e.State): the hook receives a copy of the struct.
OnStateUpdate(state) == [calls |-> hook.calls + 1, last |-> state]

\* What the holder of the last snapshot reads in it now.  *e.State copies the
\* struct (lines 609-618): the strings, the integers and the slice headers
\* are copied, so later appends of the engine are outside the snapshot's
\* length, but ProcessedURLs is a map, and the copy refers to the map of the
\* engine's state.
SnapshotNow == [hook.last EXCEPT !.ProcessedURLs = State.ProcessedURLs]

\* An error after which Run goes on to the report.
FailThenReport(reason) ==
    /\ pc' = "report"
    /\ runResult' = [err |-> reason, report |-> ""]

\* Run returns an error.
Fail(reason) ==
    /\ pc' = "failed"
    /\ runResult' = [err |-> reason, report |-> ""]

\* Run, lines 109-114: the topic is set and the hook called.
RunStart ==
    /\ pc = "init"
    /\ State' = [State EXCEPT !.Topic = Topic]
    /\ hook' = OnStateUpdate(State')
    /\ pc' = "loop"
    /\ UNCHANGED <<gen, queries, qtask, allResults, searchResults, relevantItems,
                   task, semaphore, summaries, runResult, stats, claims, reflection>>
    /\ SaveState(State')
    /\ UNCHANGED <<ctx, chat, store, mcp>>

\* A loop condition that admits one iteration past the cap.
LoopConditionInclusive(state) == state.Iteration <= state.MaxIterations

\* Line 116: the condition of Run's loop.
LoopCondition(state) == state.Iteration < state.MaxIterations

\* Run, lines 116-125: the loop condition, the increment, the hook, and the
\* call of planPhase; or the exit of the loop to generateReport.
LoopHead ==
    /\ pc = "loop"
    /\ IF LoopCondition(State)
       THEN /\ State' = [State EXCEPT !.Iteration = @ + 1]
            /\ hook' = OnStateUpdate(State')
            /\ pc' = "plan"
            /\ gen' = NewGen
            /\ stats' = [stats EXCEPT !.plans = @ + 1]
       ELSE /\ pc' = "report"
            /\ UNCHANGED <<State, hook, gen, stats>>
    /\ UNCHANGED <<queries, qtask, allResults, searchResults, relevantItems,
                   task, semaphore, summaries, runResult, claims, reflection>>
    /\ IF LoopCondition(State) THEN SaveState(State') ELSE UNCHANGED job
    /\ UNCHANGED <<ctx, chat, store, mcp>>

\* planPhase: one attempt of its generateWithRetry call.
PlanAttempt(resp) ==
    /\ pc = "plan"
    /\ gen.status = "running"
    /\ CtxAllows(resp)
    /\ gen' = generateWithRetry(gen, resp, planValidator(resp.content))
    /\ UNCHANGED <<pc, State, queries, qtask, allResults, searchResults,
                   relevantItems, task, semaphore, summaries, hook,
                   runResult, stats, claims, reflection>>
    /\ UNCHANGED <<ctx, job, chat, store, mcp>>

\* planPhase returns (lines 219-224) and Run goes on (lines 126-135): the error
\* is returned, an empty list breaks the loop, and otherwise sourcePhase starts
\* one goroutine per query.
PlanReturn ==
    /\ pc = "plan"
    /\ gen.status \in {"ok", "failed"}
    /\ gen' = IdleGen
    /\ IF gen.status = "failed"
       THEN /\ Fail("planning failed")
            /\ UNCHANGED <<queries, qtask, allResults, stats>>
       ELSE IF Len(gen.content.queries) = 0
       THEN /\ pc' = "report"
            /\ UNCHANGED <<queries, qtask, allResults, runResult, stats>>
       ELSE /\ pc' = "source"
            /\ stats' = [stats EXCEPT !.sources = @ + 1]
            /\ queries' = gen.content.queries
            /\ qtask' = [i \in 1..Len(gen.content.queries) |->
                            [pc |-> "run", err |-> FALSE, parsedResults |-> <<>>]]
            /\ allResults' = <<>>
            /\ UNCHANGED runResult
    /\ UNCHANGED <<State, searchResults, relevantItems, task, semaphore,
                   summaries, hook, claims, reflection>>
    /\ UNCHANGED <<ctx, job, chat, store, mcp>>

---------------------------------------------------------------------------
(* sourcePhase *)

\* What tools.SearchArxiv(query, 2) gives: an error, or the text of the feed's
\* entries.
ArxivOutcomes(feeds) ==
    {[err |-> TRUE, entries |-> <<>>]} \cup {[err |-> FALSE, entries |-> es] : es \in feeds}

RECURSIVE uniqueResults(_, _)
\* A merge that drops nothing.
uniqueResultsKeepAll(rs, seen) == rs

\* Lines 271-279: the results whose title was not seen before, in order.
uniqueResults(rs, seen) ==
    IF rs = <<>> THEN <<>>
    ELSE IF Head(rs).Title \in seen THEN uniqueResults(Tail(rs), seen)
    ELSE <<Head(rs)>> \o uniqueResults(Tail(rs), seen \cup {Head(rs).Title})

\* Lines 260-262: the append to the shared list under the local mutex.
AppendResults(all, parsed) == all \o parsed

\* The goroutine of query i (lines 251-267): the search, the parse and the
\* append of the parsed results under the local mutex.
SourceQuery(i, out) ==
    /\ pc = "source"
    /\ i \in DOMAIN qtask
    /\ qtask[i].pc = "run"
    /\ LET parsed == IF out.err THEN <<>>
                     ELSE parseArxivOutput(ArxivText(queries[i], out.entries))
       IN /\ qtask' = [qtask EXCEPT ![i] = [pc |-> "done", err |-> out.err,
                                             parsedResults |-> parsed]]
          /\ allResults' = IF out.err THEN allResults
                           ELSE AppendResults(allResults, parsed)
    /\ UNCHANGED <<pc, State, gen, queries, searchResults, relevantItems, task,
                   semaphore, summaries, hook, runResult, stats, claims, reflection>>
    /\ UNCHANGED <<ctx, job, chat, store, mcp>>

\* wg.Wait returns once every goroutine is done; the results are deduplicated
\* by title and sourcePhase returns them (lines 269-281).
SourceJoin ==
    /\ pc = "source"
    /\ \A i \in DOMAIN qtask : qtask[i].pc = "done"
    /\ searchResults' = uniqueResults(allResults, {})
    /\ pc' = "sourced"
    /\ UNCHANGED <<State, gen, queries, qtask, allResults, relevantItems, task,
                   semaphore, summaries, hook, runResult, stats, claims, reflection>>
    /\ UNCHANGED <<ctx, job, chat, store, mcp>>

---------------------------------------------------------------------------
(* filterPhase *)

\* The contents the filtering LLM may answer with for n candidates: text that
\* is not JSON, or a JSON object with a list of scores; an id may be any
\* integer and a score either side of the threshold.
ScoreItems(n) ==
    {[id |-> i, score |-> s] : i \in -1..n,
                               s \in {RelevanceThreshold - 1, RelevanceThreshold}}

FilterContents(items, maxLen) ==
    {NoContent} \cup
    {[json |-> TRUE, queries |-> <<>>, scores |-> sc] : sc \in SeqsOf(items, 0, maxLen)}

\* Line 378: the condition under which a scored item is kept.
Keeps(item, n) == item.score >= RelevanceThreshold /\ item.id < n

RECURSIVE filterKeep(_, _)
\* Lines 376-382: the candidates the scores keep, in the order of the scores;
\* results[item.ID] with a negative ID is an index out of range, which panics.
filterKeep(results, scores) ==
    IF scores = <<>> THEN [panic |-> FALSE, relevant |-> <<>>]
    ELSE IF ~Keeps(Head(scores), Len(results)) THEN filterKeep(results, Tail(scores))
    ELSE IF Head(scores).id < 0 THEN [panic |-> TRUE, relevant |-> <<>>]
    ELSE LET rest == filterKeep(results, Tail(scores))
         IN [panic |-> rest.panic,
             relevant |-> IF rest.panic THEN <<>>
                          ELSE <<results[Head(scores).id + 1]>> \o rest.relevant]

\* Run calls filterPhase (line 141) as sourcePhase has returned: without
\* candidates it returns at once (lines 333-335), otherwise generateWithRetry
\* is called.
FilterStart ==
    /\ pc = "sourced"
    /\ stats' = [stats EXCEPT !.filters = @ + 1]
    /\ queries' = <<>>
    /\ qtask' = NoTasks
    /\ allResults' = <<>>
    /\ IF Len(searchResults) = 0
       THEN /\ pc' = "filtered"
            /\ relevantItems' = <<>>
            /\ UNCHANGED gen
       ELSE /\ pc' = "filter"
            /\ gen' = NewGen
            /\ UNCHANGED relevantItems
    /\ UNCHANGED <<State, searchResults, task, semaphore, summaries, hook,
                   runResult, claims, reflection>>
    /\ UNCHANGED <<ctx, job, chat, store, mcp>>

\* filterPhase: one attempt of its generateWithRetry call.
FilterAttempt(resp) ==
    /\ pc = "filter"
    /\ gen.status = "running"
    /\ CtxAllows(resp)
    /\ gen' = generateWithRetry(gen, resp, filterValidator(resp.content))
    /\ UNCHANGED <<pc, State, queries, qtask, allResults, searchResults,
                   relevantItems, task, semaphore, summaries, hook,
                   runResult, stats, claims, reflection>>
    /\ UNCHANGED <<ctx, job, chat, store, mcp>>

\* generateWithRetry has returned: filterPhase returns its error, or keeps the
\* candidates the scores select (lines 372-385).
FilterReturn ==
    /\ pc = "filter"
    /\ gen.status \in {"ok", "failed"}
    /\ IF gen.status = "failed"
       THEN /\ Fail("filtering failed")
            /\ UNCHANGED relevantItems
       ELSE LET kept == filterKeep(searchResults, gen.content.scores)
            IN /\ pc' = IF kept.panic THEN "panic" ELSE "filtered"
               /\ relevantItems' = kept.relevant
               /\ UNCHANGED runResult
    /\ UNCHANGED <<State, gen, queries, qtask, allResults, searchResults, task,
                   semaphore, summaries, hook, stats, claims, reflection>>
    /\ UNCHANGED <<ctx, job, chat, store, mcp>>

---------------------------------------------------------------------------
(* acquireAndIndexPhase *)

ExcerptLen == 500

\* tools.ScrapePDF's text for a URL.
PdfText(url) == "# " \o url \o " text"

\* Lines 481-485: the first 500 code points of the text.
Excerpt(fullText) ==
    IF Len(fullText) > ExcerptLen THEN SubSeq(fullText, 1, ExcerptLen) ELSE fullText

\* Lines 487-490: the summary of a source.
Summary(item, fullText) ==
    [Source |-> item.Title, Summary |-> item.Snippet, Excerpts |-> Excerpt(fullText)]

NewTask(item) ==
    [pc |-> "start", item |-> item, fullText |-> "", claimed |-> FALSE,
     scraped |-> "none", inserted |-> FALSE]

\* Lines 398-412: the extension and the table are ensured (an error of either
\* is returned), and one goroutine per item is started.
AcquireStart(db) ==
    /\ pc = "filtered"
    /\ (ctx = "cancelled") => (db # "ok")
    /\ stats' = [stats EXCEPT !.acquires = @ + 1]
    /\ gen' = IdleGen
    /\ searchResults' = <<>>
    /\ IF db # "ok"
       THEN /\ Fail("acquire/index failed")
            /\ UNCHANGED <<task, semaphore, summaries>>
       ELSE /\ pc' = "acquire"
            /\ task' = [t \in 1..Len(relevantItems) |-> NewTask(relevantItems[t])]
            /\ semaphore' = 0
            /\ summaries' = <<>>
            /\ UNCHANGED runResult
    /\ UNCHANGED <<State, queries, qtask, allResults, relevantItems, hook,
                   claims, reflection>>
    /\ UNCHANGED <<ctx, job, chat, store, mcp>>

\* A semaphore that never blocks.
CanAcquireUnbounded == TRUE

\* semaphore <- struct{}{} (line 411): blocks while the channel is full.
CanAcquire == semaphore < SemaphoreWidth

TaskAcquire(t) ==
    /\ pc = "acquire"
    /\ t \in DOMAIN task
    /\ task[t].pc = "start"
    /\ CanAcquire
    /\ semaphore' = semaphore + 1
    /\ task' = [task EXCEPT ![t].pc = "lock"]
    /\ UNCHANGED <<pc, State, gen, queries, qtask, allResults, searchResults,
                   relevantItems, summaries, hook, runResult, stats, claims, reflection>>
    /\ UNCHANGED <<ctx, job, chat, store, mcp>>

\* e.State.Mu.Lock() (lines 415 and 493): blocks while the mutex is held.
CanLock == State.Mu = 0

TaskLock(t) ==
    /\ pc = "acquire"
    /\ t \in DOMAIN task
    /\ task[t].pc \in {"lock", "relock"}
    /\ CanLock
    /\ State' = [State EXCEPT !.Mu = t]
    /\ task' = [task EXCEPT ![t].pc = IF task[t].pc = "lock" THEN "check" ELSE "record"]
    /\ UNCHANGED <<pc, gen, queries, qtask, allResults, searchResults,
                   relevantItems, semaphore, summaries, hook, runResult,
                   stats, claims, reflection>>
    /\ UNCHANGED <<ctx, job, chat, store, mcp>>

\* A claim step that replaces the processed URLs by the one it has checked.
MarkProcessedOnly(urls, url) == {url}

\* A claim step that forgets the URL it has checked.
MarkProcessedForgets(urls, url) == urls

\* Line 420: the URL is marked processed.
MarkProcessed(urls, url) == urls \cup {url}

Bump(f, u) ==
    IF u \in DOMAIN f THEN [f EXCEPT ![u] = @ + 1]
    ELSE [x \in DOMAIN f \cup {u} |-> IF x = u THEN 1 ELSE f[x]]

\* Lines 416-421, with the mutex held: a processed URL makes the goroutine
\* return (its deferred calls release the semaphore); otherwise the URL is
\* claimed.
TaskCheck(t) ==
    /\ pc = "acquire"
    /\ t \in DOMAIN task
    /\ task[t].pc = "check"
    /\ State.Mu = t
    /\ IF task[t].item.URL \in State.ProcessedURLs
       THEN /\ State' = [State EXCEPT !.Mu = 0]
            /\ task' = [task EXCEPT ![t].pc = "done"]
            /\ semaphore' = semaphore - 1
            /\ UNCHANGED claims
       ELSE /\ State' = [State EXCEPT !.Mu = 0,
                            !.ProcessedURLs = MarkProcessed(@, task[t].item.URL)]
            /\ task' = [task EXCEPT ![t].pc = "scrape", ![t].claimed = TRUE]
            /\ claims' = Bump(claims, task[t].item.URL)
            /\ UNCHANGED semaphore
    /\ UNCHANGED <<pc, gen, queries, qtask, allResults, searchResults,
                   relevantItems, summaries, hook, runResult, stats, reflection>>
    /\ UNCHANGED <<ctx, job, chat, store, mcp>>

\* Lines 425-439: the text of the source; the snippet when there is no URL,
\* when scraping fails and when the scraped text is empty.
ScrapedText(item, scraped) ==
    LET text == IF item.URL # "" /\ scraped = "ok" THEN PdfText(item.URL)
                ELSE IF item.URL # "" /\ scraped = "error" THEN item.Snippet
                ELSE ""
    IN IF text = "" THEN item.Snippet ELSE text

TaskScrape(t, scraped) ==
    /\ pc = "acquire"
    /\ t \in DOMAIN task
    /\ task[t].pc = "scrape"
    /\ (task[t].item.URL = "") => (scraped = "none")
    /\ (task[t].item.URL # "") => (scraped # "none")
    /\ task' = [task EXCEPT ![t].pc = "index", ![t].scraped = scraped,
                            ![t].fullText = ScrapedText(task[t].item, scraped)]
    /\ UNCHANGED <<pc, State, gen, queries, qtask, allResults, searchResults,
                   relevantItems, semaphore, summaries, hook, runResult,
                   stats, claims, reflection>>
    /\ UNCHANGED <<ctx, job, chat, store, mcp>>

\* A goroutine that returns when indexing fails.
AfterIndexAborts(indexed) == IF indexed = "ok" THEN "relock" ELSE "done"

\* Lines 443-476: split, embed, insert; an error of any of the steps is logged
\* and the goroutine goes on.
AfterIndex(indexed) == "relock"

TaskIndex(t, indexed) ==
    /\ pc = "acquire"
    /\ t \in DOMAIN task
    /\ task[t].pc = "index"
    /\ (ctx = "cancelled") => (indexed \in {"split error", "embed error"})
    /\ task' = [task EXCEPT ![t].pc = AfterIndex(indexed),
                            ![t].inserted = (indexed = "ok")]
    /\ UNCHANGED <<pc, State, gen, queries, qtask, allResults, searchResults,
                   relevantItems, semaphore, summaries, hook, runResult, stats,
                   claims, reflection>>
    /\ UNCHANGED <<ctx, job, chat, store, mcp>>

\* A record step that appends the summary only.
RecordFactsOnly(state, item, fullText) ==
    [state EXCEPT !.AccumulatedFacts = Append(@, Summary(item, fullText))]

\* Lines 493-496, with the mutex held: the summary and the item are recorded.
Record(state, item, fullText) ==
    [state EXCEPT !.AccumulatedFacts = Append(@, Summary(item, fullText)),
                  !.IndexedItems = Append(@, item)]

TaskRecord(t) ==
    /\ pc = "acquire"
    /\ t \in DOMAIN task
    /\ task[t].pc = "record"
    /\ State.Mu = t
    /\ State' = [Record(State, task[t].item, task[t].fullText) EXCEPT !.Mu = 0]
    /\ task' = [task EXCEPT ![t].pc = "local"]
    /\ UNCHANGED <<pc, gen, queries, qtask, allResults, searchResults,
                   relevantItems, semaphore, summaries, hook, runResult,
                   stats, claims, reflection>>
    /\ UNCHANGED <<ctx, job, chat, store, mcp>>

\* Lines 499-503: the summary is appended to the phase's list under the local
\* mutex and the goroutine returns; its deferred calls release the semaphore.
TaskFinish(t) ==
    /\ pc = "acquire"
    /\ t \in DOMAIN task
    /\ task[t].pc = "local"
    /\ summaries' = Append(summaries, Summary(task[t].item, task[t].fullText))
    /\ semaphore' = semaphore - 1
    /\ task' = [task EXCEPT ![t].pc = "done"]
    /\ UNCHANGED <<pc, State, gen, queries, qtask, allResults, searchResults,
                   relevantItems, hook, runResult, stats, claims, reflection>>
    /\ UNCHANGED <<ctx, job, chat, store, mcp>>

\* A wait that returns while goroutines are still running.
WaitReturnsEarly == TRUE

\* wg.Wait (line 506) returns once every goroutine has returned.
WaitReturns == \A t \in DOMAIN task : task[t].pc = "done"

\* wg.Wait returns (line 506), the phase returns its summaries and Run calls
\* the hook (lines 157-159).
AcquireJoin ==
    /\ pc = "acquire"
    /\ WaitReturns
    /\ pc' = "reflect"
    /\ task' = NoTasks
    /\ relevantItems' = <<>>
    /\ hook' = OnStateUpdate(State)
    /\ UNCHANGED <<State, gen, queries, qtask, allResults, searchResults,
                   semaphore, summaries, runResult, stats, claims, reflection>>
    /\ SaveState(State')
    /\ UNCHANGED <<ctx, chat, store, mcp>>

---------------------------------------------------------------------------
(* reflectPhase and generateReport *)

LowerCase == "abcdefghijklmnopqrstuvwxyz"
UpperCase == "ABCDEFGHIJKLMNOPQRSTUVWXYZ"

\* unicode.ToUpper of one character
UpperChar(c) ==
    IF \E i \in 1..Len(LowerCase) : SubSeq(LowerCase, i, i) = c
    THEN LET i == CHOOSE i \in 1..Len(LowerCase) : SubSeq(LowerCase, i, i) = c
         IN SubSeq(UpperCase, i, i)
    ELSE c

RECURSIVE ToUpper(_)
\* strings.ToUpper
ToUpper(s) ==
    IF Len(s) = 0 THEN ""
    ELSE UpperChar(SubSeq(s, 1, 1)) \o ToUpper(SubSeq(s, 2, Len(s)))

\* strings.Contains
Contains(s, sub) ==
    \E i \in 1..(Len(s) + 1) :
        i + Len(sub) - 1 <= Len(s) /\ SubSeq(s, i, i + Len(sub) - 1) = sub

\* What the reflection LLM call gives: an error, a response without choices,
\* or a text.
StopTexts == {"STOP", "stop", "Enough. Stop", "nonsTOp"}

ContinueTexts == {"CONTINUE focus on data", "continue", "S T O P", "STO", ""}

ReflectContents == StopTexts \cup ContinueTexts

ReflectResponses ==
    {[kind |-> "error", content |-> ""], [kind |-> "nochoices", content |-> ""]}
    \cup {[kind |-> "content", content |-> c] : c \in ReflectContents}

\* A test for STOP that respects case.
ShouldContinueCaseSensitive(content) == ~Contains(content, "STOP")

\* Lines 535-539: the decision reflectPhase takes on the LLM's text.
ShouldContinue(content) == ~Contains(ToUpper(content), "STOP")

\* A hard limit that never strikes.
HardLimitNever(state) == FALSE

\* A hard limit that strikes one iteration early.
HardLimitEarly(state) == state.Iteration + 1 >= state.MaxIterations

\* Lines 513-516: at the hard limit reflectPhase returns without an LLM call.
HardLimit(state) == state.Iteration >= state.MaxIterations

ReflectLimit ==
    /\ pc = "reflect"
    /\ HardLimit(State)
    /\ reflection' = NoReflection
    /\ pc' = "reflected"
    /\ UNCHANGED <<State, gen, queries, qtask, allResults, searchResults,
                   relevantItems, task, semaphore, summaries, hook,
                   runResult, stats, claims>>
    /\ UNCHANGED <<ctx, job, chat, store, mcp>>

\* Lines 518-539: the single LLM call of reflectPhase; resp.Choices[0] of a
\* response without choices is an index out of range, which panics.
ReflectCall(resp) ==
    /\ pc = "reflect"
    /\ ~HardLimit(State)
    /\ CtxAllows(resp)
    /\ stats' = [stats EXCEPT !.reflects = @ + 1]
    /\ IF resp.kind = "nochoices"
       THEN /\ pc' = "panic"
            /\ UNCHANGED reflection
       ELSE /\ pc' = "reflected"
            /\ reflection' =
                 IF resp.kind = "error"
                 THEN [called |-> TRUE, content |-> "", shouldContinue |-> FALSE,
                       err |-> "llm error"]
                 ELSE [called |-> TRUE, content |-> resp.content,
                       shouldContinue |-> ShouldContinue(resp.content), err |-> "nil"]
    /\ UNCHANGED <<State, gen, queries, qtask, allResults, searchResults,
                   relevantItems, task, semaphore, summaries, hook,
                   runResult, claims>>
    /\ UNCHANGED <<ctx, job, chat, store, mcp>>

\* Run, lines 163-176: the error is returned, the loop is left when
\* reflectPhase says not to continue, and otherwise the loop goes on.
AfterReflect ==
    /\ pc = "reflected"
    /\ summaries' = <<>>
    /\ reflection' = NoReflection
    /\ IF reflection.err # "nil"
       THEN /\ Fail("reflection failed")
            /\ UNCHANGED stats
       ELSE /\ pc' = IF reflection.shouldContinue THEN "loop" ELSE "report"
            /\ stats' = [stats EXCEPT !.stop =
                            @ \/ (reflection.called /\ reflection.content \in StopTexts)]
            /\ UNCHANGED runResult
    /\ UNCHANGED <<State, gen, queries, qtask, allResults, searchResults,
                   relevantItems, task, semaphore, hook, claims>>
    /\ UNCHANGED <<ctx, job, chat, store, mcp>>

ReportContents == {"# Report", ""}

\* generateReport (lines 542-587): one LLM call; its error is returned, and
\* resp.Choices[0] of a response without choices panics.
Report(resp) ==
    /\ pc = "report"
    /\ CtxAllows(resp)
    /\ stats' = [stats EXCEPT !.reports = @ + 1]
    /\ IF resp.kind = "error" THEN Fail("report failed")
       ELSE IF resp.kind = "nochoices" THEN pc' = "panic" /\ UNCHANGED runResult
       ELSE /\ pc' = "done"
            /\ runResult' = [err |-> "nil", report |-> resp.content]
    /\ UNCHANGED <<State, gen, queries, qtask, allResults, searchResults,
                   relevantItems, task, semaphore, summaries, hook,
                   reflection, claims>>
    /\ UNCHANGED <<ctx, job, chat, store, mcp>>

ReportResponses ==
    {[kind |-> "error", content |-> ""], [kind |-> "nochoices", content |-> ""]}
    \cup {[kind |-> "content", content |-> c] : c \in ReportContents}

---------------------------------------------------------------------------
(* The run of the engine *)

\* The feeds of a run: up to two entries (SearchArxiv is called with
\* maxResults = 2).
maxResults == 2

Feeds == SeqsOf(Feed, 0, maxResults)

\* The scores of a run for n candidates: every candidate with a score at the
\* threshold, the first one with a score below it, and an id on either side of
\* the range.
RunScoreItems(n) ==
    {[id |-> i, score |-> RelevanceThreshold] : i \in -1..n}
    \cup {[id |-> 0, score |-> RelevanceThreshold - 1]}

Next ==
    \/ RunStart
    \/ LoopHead
    \/ \E resp \in LLMFailures \cup LLMAnswers(PlanContents(MaxQueries)) : PlanAttempt(resp)
    \/ PlanReturn
    \/ \E i \in DOMAIN qtask, out \in ArxivOutcomes(Feeds) : SourceQuery(i, out)
    \/ SourceJoin
    \/ FilterStart
    \/ \E resp \in LLMFailures \cup
                   LLMAnswers(FilterContents(RunScoreItems(Len(searchResults)), MaxScores)) :
          FilterAttempt(resp)
    \/ FilterReturn
    \/ \E db \in {"ok", "extension error", "table error"} : AcquireStart(db)
    \/ \E t \in DOMAIN task : TaskAcquire(t)
    \/ \E t \in DOMAIN task : TaskLock(t)
    \/ \E t \in DOMAIN task : TaskCheck(t)
    \/ \E t \in DOMAIN task, scraped \in {"ok", "empty", "error", "none"} : TaskScrape(t, scraped)
    \/ \E t \in DOMAIN task, indexed \in {"ok", "split error", "embed error", "insert error"} :
          TaskIndex(t, indexed)
    \/ \E t \in DOMAIN task : TaskRecord(t)
    \/ \E t \in DOMAIN task : TaskFinish(t)
    \/ AcquireJoin
    \/ ReflectLimit
    \/ \E resp \in ReflectResponses : ReflectCall(resp)
    \/ AfterReflect
    \/ \E resp \in ReportResponses : Report(resp)

Spec == Init /\ [][Next]_vars

---------------------------------------------------------------------------
(* The phases on their own, from the states Run calls them in *)

SrcQueries == 2     \* sourcePhase is explored for 1..SrcQueries queries
FltCandidates == 2  \* filterPhase is explored for 0..FltCandidates candidates
FltScores == 2      \* and for score lists of up to FltScores entries
AcqTasks == 4       \* acquireAndIndexPhase is explored for 1..AcqTasks items

\* The state of Run in iteration `iter`, nothing acquired yet.
RunningState(iter, maxIterations) ==
    [NewState(maxIterations) EXCEPT !.Topic = Topic, !.Iteration = iter]

\* A feed in which a title comes twice, with different links.
SourceFeed == Feed \cup {[Title |-> "T1", Summary |-> "s1b", Link |-> "u2"]}

SourceQueries == {"qa", "qb"}

\* sourcePhase as planPhase has returned its queries.
InitSource ==
    /\ State = RunningState(1, 1)
    /\ hook = [calls |-> 2, last |-> State]
    /\ \E qs \in SeqsOf(SourceQueries, 1, SrcQueries) :
          /\ pc = "source"
          /\ queries = qs
          /\ qtask = [i \in 1..Len(qs) |-> [pc |-> "run", err |-> FALSE, parsedResults |-> <<>>]]
    /\ gen = IdleGen
    /\ allResults = <<>>
    /\ searchResults = <<>>
    /\ relevantItems = <<>>
    /\ task = NoTasks
    /\ semaphore = 0
    /\ summaries = <<>>
    /\ runResult = [err |-> "nil", report |-> ""]
    /\ reflection = NoReflection
    /\ stats = [IdleStats EXCEPT !.plans = 1, !.sources = 1]
    /\ claims = [u \in {} |-> 0]
    /\ ctx = "live"
    /\ job = NoJob
    /\ chat = NoChat
    /\ store = NoStore
    /\ mcp = NoSessions

NextSource ==
    \/ \E i \in DOMAIN qtask, out \in ArxivOutcomes(SeqsOf(SourceFeed, 0, maxResults)) :
          SourceQuery(i, out)
    \/ SourceJoin

SpecSource == InitSource /\ [][NextSource]_vars

\* The candidates sourcePhase may return: results of distinct titles.
Candidates ==
    { [Title |-> "T1", URL |-> "u1", Snippet |-> "s1"],
      [Title |-> "T2", URL |-> "", Snippet |-> "s2"],
      [Title |-> "T3", URL |-> "u3", Snippet |-> "s3"] }

DistinctTitles(rs) ==
    \A i, j \in 1..Len(rs) : rs[i].Title = rs[j].Title => i = j

\* filterPhase as sourcePhase has returned its candidates.
InitFilter ==
    /\ State = RunningState(1, 1)
    /\ hook = [calls |-> 2, last |-> State]
    /\ pc = "sourced"
    /\ searchResults \in {rs \in SeqsOf(Candidates, 0, FltCandidates) : DistinctTitles(rs)}
    /\ gen = IdleGen
    /\ queries = <<"qa">>
    /\ qtask = <<[pc |-> "done", err |-> FALSE, parsedResults |-> searchResults]>>
    /\ allResults = searchResults
    /\ relevantItems = <<>>
    /\ task = NoTasks
    /\ semaphore = 0
    /\ summaries = <<>>
    /\ runResult = [err |-> "nil", report |-> ""]
    /\ reflection = NoReflection
    /\ stats = [IdleStats EXCEPT !.plans = 1, !.sources = 1]
    /\ claims = [u \in {} |-> 0]
    /\ ctx = "live"
    /\ job = NoJob
    /\ chat = NoChat
    /\ store = NoStore
    /\ mcp = NoSessions

NextFilter ==
    \/ FilterStart
    \/ \E resp \in LLMFailures \cup
                   LLMAnswers(FilterContents(ScoreItems(Len(searchResults)), FltScores)) :
          FilterAttempt(resp)
    \/ FilterReturn

SpecFilter == InitFilter /\ [][NextFilter]_vars

\* The items of an acquisition: the first n of the candidates taken in turn,
\* so that from the fourth on an item comes again.
CandidateCycle == <<[Title |-> "T1", URL |-> "u1", Snippet |-> "s1"],
                    [Title |-> "T2", URL |-> "", Snippet |-> "s2"],
                    [Title |-> "T3", URL |-> "u3", Snippet |-> "s3"]>>

AcquireInput(n) == [i \in 1..n |-> CandidateCycle[((i - 1) % Len(CandidateCycle)) + 1]]

\* Two items of different titles that both come without a PDF link.
WithoutLink == <<[Title |-> "T2", URL |-> "", Snippet |-> "s2"],
                 [Title |-> "T4", URL |-> "", Snippet |-> "s4"]>>

\* The state of Run in iteration 2 when iteration 1 has acquired `item` from
\* its snippet.
StateAfter(item) ==
    [RunningState(2, 2) EXCEPT
        !.ProcessedURLs = {item.URL},
        !.AccumulatedFacts = <<Summary(item, item.Snippet)>>,
        !.IndexedItems = <<item>>]

\* acquireAndIndexPhase as filterPhase has returned its items, in the first
\* iteration or in the second after an item was acquired in the first.
InitAcquire ==
    /\ State \in {RunningState(1, 1)} \cup {StateAfter(CandidateCycle[1])}
    /\ hook = [calls |-> 2 * State.Iteration, last |-> RunningState(State.Iteration, State.MaxIterations)]
    /\ pc = "filtered"
    /\ relevantItems \in {AcquireInput(n) : n \in 1..AcqTasks} \cup {WithoutLink}
    /\ searchResults = <<>>
    /\ gen = IdleGen
    /\ queries = <<>>
    /\ qtask = NoTasks
    /\ allResults = <<>>
    /\ task = NoTasks
    /\ semaphore = 0
    /\ summaries = <<>>
    /\ runResult = [err |-> "nil", report |-> ""]
    /\ reflection = NoReflection
    /\ stats = [IdleStats EXCEPT !.plans = State.Iteration,
                                 !.sources = State.Iteration,
                                 !.filters = State.Iteration,
                                 !.acquires = State.Iteration - 1,
                                 !.reflects = State.Iteration - 1]
    /\ claims = [u \in State.ProcessedURLs |-> 1]
    /\ ctx = "live"
    /\ job = NoJob
    /\ chat = NoChat
    /\ store = NoStore
    /\ mcp = NoSessions

NextAcquire ==
    \/ \E db \in {"ok", "extension error", "table error"} : AcquireStart(db)
    \/ \E t \in DOMAIN task : TaskAcquire(t)
    \/ \E t \in DOMAIN task : TaskLock(t)
    \/ \E t \in DOMAIN task : TaskCheck(t)
    \/ \E t \in DOMAIN task, scraped \in {"ok", "empty", "error", "none"} : TaskScrape(t, scraped)
    \/ \E t \in DOMAIN task, indexed \in {"ok", "split error", "embed error", "insert error"} :
          TaskIndex(t, indexed)
    \/ \E t \in DOMAIN task : TaskRecord(t)
    \/ \E t \in DOMAIN task : TaskFinish(t)
    \/ AcquireJoin

SpecAcquire == InitAcquire /\ [][NextAcquire]_vars

\* The steps of the goroutine of item t (lines 409-504).
TaskStep(t) ==
    \/ TaskAcquire(t)
    \/ TaskLock(t)
    \/ TaskCheck(t)
    \/ \E scraped \in {"ok", "empty", "error", "none"} : TaskScrape(t, scraped)
    \/ \E indexed \in {"ok", "split error", "embed error", "insert error"} :
          TaskIndex(t, indexed)
    \/ TaskRecord(t)
    \/ TaskFinish(t)

\* The phase when every call of a goroutine returns with an error: the scrape
\* fails (or there is nothing to scrape) and the chunks are not inserted, so
\* every goroutine goes through the paths on which an error is logged.
NextAcquireFair ==
    \/ \E db \in {"ok", "table error"} : AcquireStart(db)
    \/ \E t \in DOMAIN task : TaskAcquire(t)
    \/ \E t \in DOMAIN task : TaskLock(t)
    \/ \E t \in DOMAIN task : TaskCheck(t)
    \/ \E t \in DOMAIN task, scraped \in {"error", "none"} : TaskScrape(t, scraped)
    \/ \E t \in DOMAIN task : TaskIndex(t, "insert error")
    \/ \E t \in DOMAIN task : TaskRecord(t)
    \/ \E t \in DOMAIN task : TaskFinish(t)
    \/ AcquireJoin

\* The phase under a fair scheduler: a goroutine that can take a step is not
\* left waiting forever, the calls of a goroutine return, and the goroutine of
\* Run goes on when it can.
SpecAcquireFair ==
    /\ InitAcquire
    /\ [][NextAcquireFair]_vars
    /\ WF_vars(\E db \in {"ok", "table error"} : AcquireStart(db))
    /\ \A t \in 1..AcqTasks : WF_vars(TaskStep(t))
    /\ WF_vars(AcquireJoin)

\* The caller of Run cancels the context while Run is running.
Cancel ==
    /\ ctx = "live"
    /\ pc \notin {"done", "failed", "panic"}
    /\ ctx' = "cancelled"
    /\ UNCHANGED <<pc, State, gen, queries, qtask, allResults, searchResults,
                   relevantItems, task, semaphore, summaries, hook, runResult,
                   reflection, stats, claims, job, chat, store, mcp>>

\* Run with a context that may be cancelled at any moment.
NextCancel == Next \/ Cancel

SpecCancel == Init /\ [][NextCancel]_vars

---------------------------------------------------------------------------
(* The research job and its worker (pkg/chat/service.go) *)

\* The row of research_jobs and the error-level rows of research_logs of one
\* job; report and state are NULL until they are set.  faults tells whether the
\* database may reject a write of this job.
JobRow(faults) ==
    [status |-> "absent",
     report |-> [set |-> FALSE, text |-> ""],
     state |-> [set |-> FALSE, value |-> NewState(0)],
     logs |-> <<>>,
     faults |-> faults]

\* CreateJob (lines 383-408): the row is inserted as pending and the worker is
\* started; a failed insert is returned to the caller and starts no worker.
CreateJob(ok) ==
    /\ pc = "idle"
    /\ IF ok
       THEN /\ job' = [job EXCEPT !.status = "pending"]
            /\ pc' = "worker"
       ELSE /\ pc' = "rejected"
            /\ UNCHANGED job
    /\ UNCHANGED <<State, gen, queries, qtask, allResults, searchResults,
                   relevantItems, task, semaphore, summaries, hook, runResult,
                   reflection, stats, claims, ctx, chat, store, mcp>>

\* runWorker, line 486: the status is set to running; the result of the write
\* is discarded.
WorkerStart(ok) ==
    /\ pc = "worker"
    /\ job' = IF ok THEN [job EXCEPT !.status = "running"] ELSE job
    /\ pc' = "newengine"
    /\ UNCHANGED <<State, gen, queries, qtask, allResults, searchResults,
                   relevantItems, task, semaphore, summaries, hook, runResult,
                   reflection, stats, claims, ctx, chat, store, mcp>>

\* A failJob that sets the status without logging the reason.
failJobSilent(j, reason, logged, updated) ==
    IF updated THEN [j EXCEPT !.status = "failed"] ELSE j

\* failJob (lines 533-540): the reason is logged at error level through the
\* database log handler and the status is set to failed; the results of both
\* writes are discarded.
failJob(j, reason, logged, updated) ==
    LET withLog == IF logged
                   THEN [j EXCEPT !.logs = Append(@, [level |-> "ERROR", message |-> reason])]
                   ELSE j
    IN IF updated THEN [withLog EXCEPT !.status = "failed"] ELSE withLog

\* runWorker, lines 491-498: the engine is built, with the worker's logger and
\* hook; if NewEngine fails the job is failed and the worker returns.
WorkerNewEngine(ok, logged, updated) ==
    /\ pc = "newengine"
    /\ IF ok
       THEN /\ pc' = "init"
            /\ UNCHANGED job
       ELSE /\ pc' = "returned"
            /\ job' = failJob(job, "Failed to init engine", logged, updated)
    /\ UNCHANGED <<State, gen, queries, qtask, allResults, searchResults,
                   relevantItems, task, semaphore, summaries, hook, runResult,
                   reflection, stats, claims, ctx, chat, store, mcp>>

\* runWorker, lines 517-521: Run returned an error.
WorkerFail(logged, updated) ==
    /\ pc = "failed"
    /\ job # NoJob
    /\ job' = failJob(job, "Research failed: " \o runResult.err, logged, updated)
    /\ pc' = "returned"
    /\ UNCHANGED <<State, gen, queries, qtask, allResults, searchResults,
                   relevantItems, task, semaphore, summaries, hook, runResult,
                   reflection, stats, claims, ctx, chat, store, mcp>>

\* runWorker, lines 523-530: Run returned the report; status and report are
\* written in one statement, and a failure of the write is logged.
WorkerComplete(updated, logged) ==
    /\ pc = "done"
    /\ job # NoJob
    /\ job' = IF updated
              THEN [job EXCEPT !.status = "completed",
                               !.report = [set |-> TRUE, text |-> runResult.report]]
              ELSE IF logged
              THEN [job EXCEPT !.logs = Append(@, [level |-> "ERROR",
                                   message |-> "Failed to save final report to DB"])]
              ELSE job
    /\ pc' = "returned"
    /\ UNCHANGED <<State, gen, queries, qtask, allResults, searchResults,
                   relevantItems, task, semaphore, summaries, hook, runResult,
                   reflection, stats, claims, ctx, chat, store, mcp>>

\* A job is submitted and run by its worker.
InitJobWith(faults) ==
    /\ pc = "idle"
    /\ State \in {NewState(m) : m \in 0..MaxIterBound}
    /\ gen = IdleGen
    /\ queries = <<>>
    /\ qtask = NoTasks
    /\ allResults = <<>>
    /\ searchResults = <<>>
    /\ relevantItems = <<>>
    /\ task = NoTasks
    /\ semaphore = 0
    /\ summaries = <<>>
    /\ hook = [calls |-> 0, last |-> NewState(0)]
    /\ runResult = [err |-> "nil", report |-> ""]
    /\ reflection = NoReflection
    /\ stats = IdleStats
    /\ claims = [u \in {} |-> 0]
    /\ ctx = "live"
    /\ job = JobRow(faults)
    /\ chat = NoChat
    /\ store = NoStore
    /\ mcp = NoSessions

WorkerNext ==
    \/ \E ok \in DbOutcomes : CreateJob(ok)
    \/ \E ok \in DbOutcomes : WorkerStart(ok)
    \/ \E ok \in BOOLEAN, logged, updated \in DbOutcomes : WorkerNewEngine(ok, logged, updated)
    \/ \E logged, updated \in DbOutcomes : WorkerFail(logged, updated)
    \/ \E updated, logged \in DbOutcomes : WorkerComplete(updated, logged)

\* The job with a database that accepts every write of the worker.
InitJob == InitJobWith(FALSE)

NextJob == Next \/ WorkerNext

SpecJob == InitJob /\ [][NextJob]_vars

\* The job with a database that may reject any write of the worker.
InitJobFaulty == InitJobWith(TRUE)

SpecJobFaulty == InitJobFaulty /\ [][NextJob]_vars

---------------------------------------------------------------------------
(* One SendMessage call and its stream (pkg/chat/service.go) *)

MaxPrior == 3         \* most messages the conversation holds before the call
MaxAgentEvents == 2   \* most events the agent's run produces

Roles == {"user", "model"}

\* The contents of the messages a conversation holds before the call.
PriorContents == <<"m1", "m2", "m3", "m4", "m5">>

\* The messages a conversation may hold before the call, oldest first; ids and
\* created_at are 1..n.
PriorMessages(n) ==
    {[i \in 1..n |-> [id |-> i, role |-> r[i], content |-> PriorContents[i],
                      created_at |-> i]] : r \in [1..n -> Roles]}

\* created_at of a row inserted now (DEFAULT NOW()): later than every row of
\* the table.
Now(messages) == Len(messages) + 1

\* What one part of an agent event may carry: text, a function call, a
\* function response, or several of them.
AgentParts ==
    { [Text |-> "a", FunctionCall |-> FALSE, FunctionResponse |-> FALSE],
      [Text |-> "b", FunctionCall |-> FALSE, FunctionResponse |-> FALSE],
      [Text |-> "", FunctionCall |-> TRUE, FunctionResponse |-> FALSE],
      [Text |-> "", FunctionCall |-> FALSE, FunctionResponse |-> TRUE],
      [Text |-> "a", FunctionCall |-> TRUE, FunctionResponse |-> FALSE] }

\* The events of the agent: LLMResponse.Content is nil (no parts) or holds one
\* part.
AgentEvents == {<<>>} \cup {<<p>> : p \in AgentParts}

\* What a write or read of the database gives during a SendMessage call: TRUE
\* when it succeeds.
ChatDbOutcomes == IF chat.faults THEN BOOLEAN ELSE {TRUE}

\* ORDER BY created_at ASC: row goes after the rows of sorted that are not
\* younger.
InsertByCreatedAt(sorted, row) ==
    LET k == Cardinality({i \in 1..Len(sorted) : sorted[i].created_at <= row.created_at})
    IN SubSeq(sorted, 1, k) \o <<row>> \o SubSeq(sorted, k + 1, Len(sorted))

\* GetHistory (lines 130-147): the conversation's rows ordered by created_at.
RECURSIVE GetHistory(_)
GetHistory(messages) ==
    IF messages = <<>> THEN <<>>
    ELSE InsertByCreatedAt(GetHistory(SubSeq(messages, 1, Len(messages) - 1)),
                           messages[Len(messages)])

\* A replay that takes every stored message for the user's.
ReplayedAsUser(msg) == [author |-> "user", role |-> "user", text |-> msg.content]

\* The author and role of the session event a stored message is replayed as
\* (lines 189-194).
ReplayedAs(msg) ==
    IF msg.role = "model"
    THEN [author |-> "research_helper", role |-> "model", text |-> msg.content]
    ELSE [author |-> "user", role |-> "user", text |-> msg.content]

\* Lines 184-208: every message of history but the one just saved is appended
\* to the session, in order.
RECURSIVE Hydrate(_, _)
Hydrate(history, userMsgID) ==
    IF history = <<>> THEN <<>>
    ELSE IF Head(history).id = userMsgID
    THEN Hydrate(Tail(history), userMsgID)
    ELSE <<ReplayedAs(Head(history))>> \o Hydrate(Tail(history), userMsgID)

\* Lines 246-266: the stream events one part gives rise to, in the order of
\* the three tests.
PartEvents(part) ==
    (IF part.Text # "" THEN <<[Type |-> "content", Payload |-> part.Text]>> ELSE <<>>)
    \o (IF part.FunctionCall THEN <<[Type |-> "tool_call", Payload |-> "call"]>> ELSE <<>>)
    \o (IF part.FunctionResponse THEN <<[Type |-> "tool_result", Payload |-> "result"]>> ELSE <<>>)

RECURSIVE EventsOf(_)
EventsOf(parts) ==
    IF parts = <<>> THEN <<>> ELSE PartEvents(Head(parts)) \o EventsOf(Tail(parts))

\* The state of a call before SendMessage is entered.
NewChat(prior, faults) ==
    [pc |-> "idle",
     faults |-> faults,
     prior |-> Len(prior),
     messages |-> prior,
     updated_at |-> 0,
     content |-> "q",
     userMsgID |-> 0,
     history |-> <<>>,
     session |-> <<>>,
     err |-> "nil",
     agentEvents |-> 0,
     produced |-> <<>>,
     pending |-> <<>>,
     emitted |-> <<>>,
     finalResponse |-> "",
     stopped |-> FALSE,
     logs |-> <<>>,
     titles |-> 0]

\* A failure that undoes what the call has written.
ReturnErrorRollsBack(c, err) ==
    [c EXCEPT !.pc = "failed", !.err = err, !.messages = SubSeq(@, 1, c.prior)]

\* Lines 156, 181 and 217: return nil, fmt.Errorf(...): the call returns the
\* error and no iterator; what it has written stays.
ReturnError(c, err) == [c EXCEPT !.pc = "failed", !.err = err]

\* Lines 151-157: the user message is inserted under a fresh id; a failed
\* insert is returned to the caller.
SendSaveUser(ok) ==
    /\ chat.pc = "idle"
    /\ LET id == Len(chat.messages) + 1
       IN chat' = IF ok
                  THEN [chat EXCEPT !.pc = "history",
                                    !.userMsgID = id,
                                    !.messages = Append(@, [id |-> id, role |-> "user",
                                                            content |-> chat.content,
                                                            created_at |-> Now(chat.messages)])]
                  ELSE ReturnError(chat, "failed to save user message")
    /\ UNCHANGED <<pc, State, gen, queries, qtask, allResults, searchResults,
                   relevantItems, task, semaphore, summaries, hook, runResult,
                   reflection, stats, claims, ctx, job, store, mcp>>

\* Lines 159-208: a new in-memory session is created, the history is read and
\* replayed into the session; a failed read is returned to the caller.
SendHydrate(ok) ==
    /\ chat.pc = "history"
    /\ chat' = IF ok
               THEN [chat EXCEPT !.pc = "runner",
                                 !.history = GetHistory(chat.messages),
                                 !.session = Hydrate(GetHistory(chat.messages), chat.userMsgID)]
               ELSE ReturnError(chat, "failed to fetch history")
    /\ UNCHANGED <<pc, State, gen, queries, qtask, allResults, searchResults,
                   relevantItems, task, semaphore, summaries, hook, runResult,
                   reflection, stats, claims, ctx, job, store, mcp>>

\* Lines 211-218 and 228: the runner is built and the iterator is returned; a
\* failure of runner.New is returned to the caller.
SendNewRunner(ok) ==
    /\ chat.pc = "runner"
    /\ chat' = IF ok
               THEN [chat EXCEPT !.pc = "iterator"]
               ELSE ReturnError(chat, "failed to create runner")
    /\ UNCHANGED <<pc, State, gen, queries, qtask, allResults, searchResults,
                   relevantItems, task, semaphore, summaries, hook, runResult,
                   reflection, stats, claims, ctx, job, store, mcp>>

\* Lines 229-237 (handler.go:405): the caller ranges over the iterator and the
\* agent's run is started.
StreamStart ==
    /\ chat.pc = "iterator"
    /\ chat' = [chat EXCEPT !.pc = "stream"]
    /\ UNCHANGED <<pc, State, gen, queries, qtask, allResults, searchResults,
                   relevantItems, task, semaphore, summaries, hook, runResult,
                   reflection, stats, claims, ctx, job, store, mcp>>

\* Line 239, 246-247: the agent's run gives its next event; the stream events
\* of its parts wait to be yielded.
AgentEvent(parts) ==
    /\ chat.pc = "stream"
    /\ chat.pending = <<>>
    /\ chat.agentEvents < MaxAgentEvents
    /\ chat' = [chat EXCEPT !.agentEvents = @ + 1,
                            !.produced = @ \o EventsOf(parts),
                            !.pending = EventsOf(parts)]
    /\ UNCHANGED <<pc, State, gen, queries, qtask, allResults, searchResults,
                   relevantItems, task, semaphore, summaries, hook, runResult,
                   reflection, stats, claims, ctx, job, store, mcp>>

\* A yield that puts the event in front of those already delivered.
yieldInFront(emitted, event) == <<event>> \o emitted

\* yield: the event is handed to the consumer, after those handed before.
yield(emitted, event) == Append(emitted, event)

\* An iterator that goes on to persist when the consumer stops.
AfterYieldPersists(accepted) == IF accepted THEN "stream" ELSE "persist"

\* Lines 251-265: `if !yield(...) { return }`; where the iterator goes after
\* a yield.
AfterYield(accepted) == IF accepted THEN "stream" ELSE "returned"

\* An iterator that keeps reading the agent's run after its error.
AfterErrorContinues == "stream"

\* Line 243: the iterator returns after the error event.
AfterError == "returned"

\* Lines 248-266: the next stream event of the part is yielded, text being
\* added to finalResponse first; the iterator returns if the consumer stops.
StreamYield(accepted) ==
    /\ chat.pc = "stream"
    /\ chat.pending # <<>>
    /\ LET event == Head(chat.pending)
       IN chat' = [chat EXCEPT
                      !.finalResponse = IF event.Type = "content"
                                        THEN @ \o event.Payload ELSE @,
                      !.emitted = yield(@, event),
                      !.pending = IF accepted THEN Tail(@) ELSE <<>>,
                      !.stopped = ~accepted,
                      !.pc = AfterYield(accepted)]
    /\ UNCHANGED <<pc, State, gen, queries, qtask, allResults, searchResults,
                   relevantItems, task, semaphore, summaries, hook, runResult,
                   reflection, stats, claims, ctx, job, store, mcp>>

\* Lines 240-244: the agent's run gives an error; it is logged, an error event
\* is yielded and the iterator returns.
AgentError ==
    /\ chat.pc = "stream"
    /\ chat.pending = <<>>
    /\ chat' = [chat EXCEPT !.logs = Append(@, "Agent runner error"),
                            !.emitted = yield(@, [Type |-> "error", Payload |-> "err"]),
                            !.pc = AfterError]
    /\ UNCHANGED <<pc, State, gen, queries, qtask, allResults, searchResults,
                   relevantItems, task, semaphore, summaries, hook, runResult,
                   reflection, stats, claims, ctx, job, store, mcp>>

\* Line 239: the agent's run ends without an error.
AgentEnd ==
    /\ chat.pc = "stream"
    /\ chat.pending = <<>>
    /\ chat' = [chat EXCEPT !.pc = "persist"]
    /\ UNCHANGED <<pc, State, gen, queries, qtask, allResults, searchResults,
                   relevantItems, task, semaphore, summaries, hook, runResult,
                   reflection, stats, claims, ctx, job, store, mcp>>

\* Lines 272-284: the model message is inserted with finalResponse; a failed
\* insert is logged, a successful one is followed by the update of the
\* conversation's updated_at, whose result is discarded.
StreamSaveModel(ok, bumped) ==
    /\ chat.pc = "persist"
    /\ LET id == Len(chat.messages) + 1
       IN chat' = IF ok
                  THEN [chat EXCEPT !.pc = "done",
                                    !.messages = Append(@, [id |-> id, role |-> "model",
                                                            content |-> chat.finalResponse,
                                                            created_at |-> Now(chat.messages)]),
                                    !.updated_at = IF bumped THEN @ + 1 ELSE @]
                  ELSE [chat EXCEPT !.pc = "done",
                                    !.logs = Append(@, "Failed to save model message")]
    /\ UNCHANGED <<pc, State, gen, queries, qtask, allResults, searchResults,
                   relevantItems, task, semaphore, summaries, hook, runResult,
                   reflection, stats, claims, ctx, job, store, mcp>>

\* Lines 286-291: the done event is yielded, whatever the consumer answers,
\* and the title task is started if history holds at most two messages.
StreamDone ==
    /\ chat.pc = "done"
    /\ chat' = [chat EXCEPT !.emitted = yield(@, [Type |-> "done", Payload |-> "done"]),
                            !.titles = IF Len(chat.history) <= 2 THEN @ + 1 ELSE @,
                            !.pc = "returned"]
    /\ UNCHANGED <<pc, State, gen, queries, qtask, allResults, searchResults,
                   relevantItems, task, semaphore, summaries, hook, runResult,
                   reflection, stats, claims, ctx, job, store, mcp>>

InitChatWith(faults) ==
    /\ pc = "chat"
    /\ State = NewState(0)
    /\ gen = IdleGen
    /\ queries = <<>>
    /\ qtask = NoTasks
    /\ allResults = <<>>
    /\ searchResults = <<>>
    /\ relevantItems = <<>>
    /\ task = NoTasks
    /\ semaphore = 0
    /\ summaries = <<>>
    /\ hook = [calls |-> 0, last |-> NewState(0)]
    /\ runResult = [err |-> "nil", report |-> ""]
    /\ reflection = NoReflection
    /\ stats = IdleStats
    /\ claims = [u \in {} |-> 0]
    /\ ctx = "live"
    /\ job = NoJob
    /\ chat \in {NewChat(prior, faults) : prior \in UNION {PriorMessages(n) : n \in 0..MaxPrior}}
    /\ store = NoStore
    /\ mcp = NoSessions

NextChat ==
    \/ \E ok \in ChatDbOutcomes : SendSaveUser(ok)
    \/ \E ok \in ChatDbOutcomes : SendHydrate(ok)
    \/ \E ok \in BOOLEAN : SendNewRunner(ok)
    \/ StreamStart
    \/ \E parts \in AgentEvents : AgentEvent(parts)
    \/ \E accepted \in BOOLEAN : StreamYield(accepted)
    \/ AgentError
    \/ AgentEnd
    \/ \E ok \in ChatDbOutcomes, bumped \in BOOLEAN : StreamSaveModel(ok, bumped)
    \/ StreamDone

\* A call served by a database that accepts every statement.
InitChat == InitChatWith(FALSE)

SpecChat == InitChat /\ [][NextChat]_vars

\* A call served by a database that may reject any statement.
InitChatFaulty == InitChatWith(TRUE)

SpecChatFaulty == InitChatFaulty /\ [][NextChat]_vars

---------------------------------------------------------------------------
(* The vector store (pkg/vectorstore/pgvector.go) and the creation of its *)
(* table (pkg/database/postgres.go)                                       *)

MaxCalls == 2        \* most statements-issuing calls made on one store
MaxFilterCost == 2   \* most entries and list items a generated filter holds

EmbeddingDimension == 1536
MaxIndexedDimension == 2000

LowerLetters ==
    {"a", "b", "c", "d", "e", "f", "g", "h", "i", "j", "k", "l", "m",
     "n", "o", "p", "q", "r", "s", "t", "u", "v", "w", "x", "y", "z"}

UpperLetters ==
    {"A", "B", "C", "D", "E", "F", "G", "H", "I", "J", "K", "L", "M",
     "N", "O", "P", "Q", "R", "S", "T", "U", "V", "W", "X", "Y", "Z"}

DigitChars == {"0", "1", "2", "3", "4", "5", "6", "7", "8", "9"}

\* The character of s at position i.
CharAt(s, i) == SubSeq(s, i, i)

\* A check that lets every name through.
isValidTableNameAny(name) == TRUE

\* isValidTableName (lines 31-36): ^[a-z_][a-zA-Z0-9_]{0,62}$
isValidTableName(name) ==
    /\ Len(name) >= 1
    /\ Len(name) <= 1 + 62
    /\ CharAt(name, 1) \in LowerLetters \cup {"_"}
    /\ \A i \in 2..Len(name) :
          CharAt(name, i) \in LowerLetters \cup UpperLetters \cup DigitChars \cup {"_"}

\* The collection names the configuration may give (COLLECTION_NAME).
TableNames ==
    {"thesis_db", "embeddings", "my_collection", "collection123", "a", "_x", "aB",
     "abcdefghijklmnopqrstuvwxyzABCDEFGHIJKLMNOPQRSTUVWXYZ0123456789_",
     "1collection", "collection-name", "collection name", "Papers",
     "users; DROP TABLE embeddings", "", "thesis_db\n",
     "abcdefghijklmnopqrstuvwxyzABCDEFGHIJKLMNOPQRSTUVWXYZ0123456789__"}

\* pgx.Identifier{name}.Sanitize(): the name between double quotes, a double
\* quote inside it doubled.
RECURSIVE DoubleQuotes(_)
DoubleQuotes(s) ==
    IF s = "" THEN ""
    ELSE (IF CharAt(s, 1) = "\"" THEN "\"\"" ELSE CharAt(s, 1))
         \o DoubleQuotes(SubSeq(s, 2, Len(s)))

Sanitize(name) == "\"" \o DoubleQuotes(name) \o "\""

\* strconv of a natural number, as fmt's %d prints it.
Digits == <<"0", "1", "2", "3", "4", "5", "6", "7", "8", "9">>

RECURSIVE Itoa(_)
Itoa(n) == IF n < 10 THEN Digits[n + 1] ELSE Itoa(n \div 10) \o Digits[(n % 10) + 1]

\* strings.Join
RECURSIVE Join(_, _)
Join(elems, sep) ==
    IF Len(elems) = 0 THEN ""
    ELSE IF Len(elems) = 1 THEN elems[1]
    ELSE elems[1] \o sep \o Join(Tail(elems), sep)

(* JSON values: a scalar carries its JSON text, a list its items, an object
   its entries in the order a `range` over the map visits them. *)

Scalar(json) == [kind |-> "scalar", json |-> json, items |-> <<>>]
List(items) == [kind |-> "list", json |-> "", items |-> items]
Object(entries) == [kind |-> "object", json |-> "", items |-> entries]
Entry(key, value) == [key |-> key, value |-> value]

PlainKeys == {"a", "b"}
OperatorKeys == {"$and", "$or", "$not"}
Scalars == {Scalar("1"), Scalar("\"x\"")}

\* The byte order of the keys, which encoding/json sorts a map's keys by.
KeyRank(key) ==
    CASE key = "$and" -> 1
      [] key = "$not" -> 2
      [] key = "$or" -> 3
      [] key = "a" -> 4
      [] key = "b" -> 5
      [] key = "c" -> 6
      [] OTHER -> 7

InsertByKey(sorted, entry) ==
    LET k == Cardinality({i \in 1..Len(sorted) : KeyRank(sorted[i].key) <= KeyRank(entry.key)})
    IN SubSeq(sorted, 1, k) \o <<entry>> \o SubSeq(sorted, k + 1, Len(sorted))

RECURSIVE SortedByKey(_)
SortedByKey(entries) ==
    IF entries = <<>> THEN <<>>
    ELSE InsertByKey(SortedByKey(SubSeq(entries, 1, Len(entries) - 1)),
                     entries[Len(entries)])

\* json.Marshal of a value: the entries of an object come out sorted by key.
RECURSIVE Marshal(_)
Marshal(value) ==
    CASE value.kind = "scalar" -> value.json
      [] value.kind = "list" ->
            "[" \o Join([i \in 1..Len(value.items) |-> Marshal(value.items[i])], ",") \o "]"
      [] value.kind = "object" ->
            LET sorted == SortedByKey(value.items)
            IN "{" \o Join([i \in 1..Len(sorted) |->
                              "\"" \o sorted[i].key \o "\":" \o Marshal(sorted[i].value)], ",")
                   \o "}"

\* A condition that writes the encoded pair into the SQL text.
ConditionInline(n, jsonBytes) == "metadata @> '" \o jsonBytes \o "'"

\* A condition whose placeholder is always the first.
ConditionFirst(n, jsonBytes) == "metadata @> $1"

\* Line 282: fmt.Sprintf("metadata @> $%d", len(*args))
Condition(n, jsonBytes) == "metadata @> $" \o Itoa(n)

\* A predicate for the filter without conditions that matches no row.
EmptyPredicateFalse == "FALSE"

\* Lines 227-229 and 286-288: the predicate of a filter without conditions.
EmptyPredicate == "TRUE"

\* A test that takes everything but an object for a list.
IsJSONListLoose(value) == value.kind # "object"

\* Line 236: value.([]interface{})
IsJSONList(value) == value.kind = "list"

\* Lines 242 and 264: value.(map[string]interface{})
IsJSONObject(value) == value.kind = "object"

\* buildMetadataQuery (lines 226-291).  filter is the map's entries in the
\* order the range visits them and args the slice behind the pointer; the
\* result holds the SQL text, the slice and the error.
RECURSIVE buildMetadataQuery(_, _)
RECURSIVE buildConditions(_, _, _)
RECURSIVE buildSubConditions(_, _, _, _)

\* Lines 241-251: the items of an operator's list.
buildSubConditions(list, key, subConditions, args) ==
    IF list = <<>> THEN [subConditions |-> subConditions, args |-> args, err |-> "nil"]
    ELSE LET item == Head(list)
         IN IF ~IsJSONObject(item)
            THEN [subConditions |-> subConditions, args |-> args,
                  err |-> "item in " \o key \o " list must be a JSON object"]
            ELSE LET sub == buildMetadataQuery(item.items, args)
                 IN IF sub.err # "nil"
                    THEN [subConditions |-> subConditions, args |-> sub.args, err |-> sub.err]
                    ELSE buildSubConditions(Tail(list), key,
                             Append(subConditions, "(" \o sub.sql \o ")"), sub.args)

\* Lines 233-284: the keys of the map.
buildConditions(filter, conditions, args) ==
    IF filter = <<>> THEN [conditions |-> conditions, args |-> args, err |-> "nil"]
    ELSE LET key == Head(filter).key
             value == Head(filter).value
         IN CASE key \in {"$and", "$or"} ->
                   IF ~IsJSONList(value)
                   THEN [conditions |-> conditions, args |-> args,
                         err |-> "value for " \o key \o " must be a list of conditions"]
                   ELSE LET subs == buildSubConditions(value.items, key, <<>>, args)
                            op == IF key = "$or" THEN " OR " ELSE " AND "
                        IN IF subs.err # "nil"
                           THEN [conditions |-> conditions, args |-> subs.args, err |-> subs.err]
                           ELSE IF Len(subs.subConditions) = 0
                           THEN buildConditions(Tail(filter), conditions, subs.args)
                           ELSE buildConditions(Tail(filter),
                                    Append(conditions,
                                           "(" \o Join(subs.subConditions, op) \o ")"),
                                    subs.args)
              [] key = "$not" ->
                   IF ~IsJSONObject(value)
                   THEN [conditions |-> conditions, args |-> args,
                         err |-> "value for $not must be a JSON object"]
                   ELSE LET sub == buildMetadataQuery(value.items, args)
                        IN IF sub.err # "nil"
                           THEN [conditions |-> conditions, args |-> sub.args, err |-> sub.err]
                           ELSE buildConditions(Tail(filter),
                                    Append(conditions, "NOT (" \o sub.sql \o ")"), sub.args)
              [] OTHER ->
                   LET jsonBytes == Marshal(Object(<<Entry(key, value)>>))
                       newArgs == Append(args, jsonBytes)
                   IN buildConditions(Tail(filter),
                          Append(conditions, Condition(Len(newArgs), jsonBytes)), newArgs)

buildMetadataQuery(filter, args) ==
    IF Len(filter) = 0 THEN [sql |-> EmptyPredicate, args |-> args, err |-> "nil"]
    ELSE LET built == buildConditions(filter, <<>>, args)
         IN IF built.err # "nil" THEN [sql |-> "", args |-> built.args, err |-> built.err]
            ELSE IF Len(built.conditions) = 0
            THEN [sql |-> EmptyPredicate, args |-> built.args, err |-> "nil"]
            ELSE [sql |-> Join(built.conditions, " AND "), args |-> built.args, err |-> "nil"]

(* The filters the compiler is run on *)

AllKeys == PlainKeys \cup OperatorKeys

KeysOf(entries) == {entries[i].key : i \in 1..Len(entries)}

\* The objects, lists and values that hold exactly n entries and list items
\* in all; the keys of an object are distinct and come in any order.
RECURSIVE Objects(_)
RECURSIVE Lists(_)
RECURSIVE Values(_)

Objects(n) ==
    IF n = 0 THEN {<<>>}
    ELSE UNION {UNION {{<<Entry(k, v)>> \o rest :
                           k \in AllKeys \ KeysOf(rest), v \in Values(c - 1)} :
                       rest \in Objects(n - c)} :
                c \in 1..n}

Lists(n) ==
    IF n = 0 THEN {<<>>}
    ELSE UNION {{<<v>> \o rest : v \in Values(c - 1), rest \in Lists(n - c)} : c \in 1..n}

Values(n) ==
    (IF n = 0 THEN Scalars ELSE {})
    \cup {List(l) : l \in Lists(n)}
    \cup {Object(o) : o \in Objects(n)}

\* The filters of the package's tests (TestBuildMetadataQuery).
TestFilters ==
    { <<>>,
      <<Entry("source", Scalar("\"doc1\""))>>,
      <<Entry("$and", List(<<Object(<<Entry("a", Scalar("1"))>>),
                            Object(<<Entry("b", Scalar("2"))>>)>>))>>,
      <<Entry("$or", List(<<Object(<<Entry("a", Scalar("1"))>>),
                           Object(<<Entry("b", Scalar("2"))>>)>>))>>,
      <<Entry("$not", Object(<<Entry("a", Scalar("1"))>>))>>,
      <<Entry("$or", List(<<Object(<<Entry("a", Scalar("1"))>>),
                           Object(<<Entry("$and",
                               List(<<Object(<<Entry("b", Scalar("2"))>>),
                                      Object(<<Entry("c", Scalar("3"))>>)>>))>>)>>))>>,
      <<Entry("a", Scalar("1")), Entry("b", Scalar("2"))>>,
      <<Entry("b", Scalar("2")), Entry("a", Scalar("1"))>>,
      <<Entry("$or", Scalar("\"invalid\""))>>,
      <<Entry("$and", List(<<Scalar("\"invalid\"")>>))>>,
      <<Entry("$not", List(<<Scalar("\"invalid\"")>>))>>,
      <<Entry("$or", List(<<>>))>>,
      <<Entry("$and", List(<<Object(<<>>)>>))>> }

Filters == TestFilters \cup UNION {Objects(n) : n \in 0..MaxFilterCost}

(* The calls *)

Statement(op, table, text, args) ==
    [op |-> op, table |-> table, text |-> text, args |-> args]

\* A store before it is constructed: the collection name of the configuration
\* and the filter a later GetContentByMetadata is called with.
NewStore(name, filter) ==
    [pc |-> "start",
     collection |-> name,
     tableName |-> "",
     filter |-> filter,
     whereClause |-> "",
     args |-> <<>>,
     calls |-> 0,
     issued |-> <<>>,
     err |-> "nil"]

\* CreateEmbeddingsTable (postgres.go:52-84), as acquireAndIndexPhase calls
\* it (part_004:402): the table and, up to 2000 dimensions, its index are
\* created under the name as given.
CreateEmbeddingsTable(created, indexed) ==
    /\ store.pc = "start"
    /\ LET name == store.collection
           table == Statement("create table", name,
                        "CREATE TABLE IF NOT EXISTS " \o name \o " (id UUID PRIMARY KEY DEFAULT gen_random_uuid(), content TEXT NOT NULL, metadata JSONB, embedding vector("
                        \o Itoa(EmbeddingDimension) \o "), created_at TIMESTAMP WITH TIME ZONE DEFAULT NOW())", <<>>)
           index == Statement("create index", name,
                        "CREATE INDEX IF NOT EXISTS " \o name \o "_embedding_idx ON "
                        \o name \o " USING hnsw (embedding vector_cosine_ops)", <<>>)
       IN store' =
            IF ~created
            THEN [store EXCEPT !.pc = "failed", !.issued = Append(@, table),
                               !.err = "failed to create table"]
            ELSE IF EmbeddingDimension > MaxIndexedDimension
            THEN [store EXCEPT !.pc = "created", !.issued = Append(@, table)]
            ELSE IF ~indexed
            THEN [store EXCEPT !.pc = "failed", !.issued = @ \o <<table, index>>,
                               !.err = "failed to create index"]
            ELSE [store EXCEPT !.pc = "created", !.issued = @ \o <<table, index>>]
    /\ UNCHANGED <<pc, State, gen, queries, qtask, allResults, searchResults,
                   relevantItems, task, semaphore, summaries, hook, runResult,
                   reflection, stats, claims, ctx, job, chat, mcp>>

\* NewPGVectorStore (lines 39-47), called by a task of the acquisition phase
\* after the table is created (part_004:467) and by the chat tools without
\* it (rag_tools.go:106, 161, 198).
NewPGVectorStore ==
    /\ store.pc \in {"start", "created"}
    /\ store' = IF isValidTableName(store.collection)
                THEN [store EXCEPT !.pc = "ready", !.tableName = store.collection]
                ELSE [store EXCEPT !.pc = "rejected", !.err = "invalid table name"]
    /\ UNCHANGED <<pc, State, gen, queries, qtask, allResults, searchResults,
                   relevantItems, task, semaphore, summaries, hook, runResult,
                   reflection, stats, claims, ctx, job, chat, mcp>>

\* What a method that issues one statement leaves: the statement, and the
\* error if the database fails it.
Issue(op, text, args, ok) ==
    [store EXCEPT !.calls = @ + 1,
                  !.issued = Append(@, Statement(op, store.tableName, text, args)),
                  !.err = IF ok THEN "nil" ELSE "failed to execute " \o op]

\* AddDocuments (lines 50-77), with one document.
AddDocuments(ok) ==
    /\ store.pc = "ready"
    /\ store.calls < MaxCalls
    /\ store' = Issue("insert",
                      "INSERT INTO " \o Sanitize(store.tableName)
                      \o " (content, metadata, embedding) VALUES ($1, $2, $3)",
                      <<"content", "{}", "embedding">>, ok)
    /\ UNCHANGED <<pc, State, gen, queries, qtask, allResults, searchResults,
                   relevantItems, task, semaphore, summaries, hook, runResult,
                   reflection, stats, claims, ctx, job, chat, mcp>>

\* SimilaritySearch (lines 86-142), with or without a source filter.
SimilaritySearch(sourceFilter, ok) ==
    /\ store.pc = "ready"
    /\ store.calls < MaxCalls
    /\ store' =
         IF sourceFilter # ""
         THEN Issue("search",
                    "SELECT id, content, metadata, 1 - (embedding <=> $1) as similarity FROM "
                    \o Sanitize(store.tableName)
                    \o " WHERE metadata->>'source' = $2 ORDER BY embedding <=> $1 LIMIT $3",
                    <<"embedding", sourceFilter, "topK">>, ok)
         ELSE Issue("search",
                    "SELECT id, content, metadata, 1 - (embedding <=> $1) as similarity FROM "
                    \o Sanitize(store.tableName)
                    \o " ORDER BY embedding <=> $1 LIMIT $2",
                    <<"embedding", "topK">>, ok)
    /\ UNCHANGED <<pc, State, gen, queries, qtask, allResults, searchResults,
                   relevantItems, task, semaphore, summaries, hook, runResult,
                   reflection, stats, claims, ctx, job, chat, mcp>>

\* GetContentBySource (lines 145-179).
GetContentBySource(ok) ==
    /\ store.pc = "ready"
    /\ store.calls < MaxCalls
    /\ store' = Issue("by source",
                      "SELECT id, content, metadata FROM " \o Sanitize(store.tableName)
                      \o " WHERE metadata->>'source' = $1", <<"source">>, ok)
    /\ UNCHANGED <<pc, State, gen, queries, qtask, allResults, searchResults,
                   relevantItems, task, semaphore, summaries, hook, runResult,
                   reflection, stats, claims, ctx, job, chat, mcp>>

\* UpdateMetadata (lines 296-318).
UpdateMetadata(ok) ==
    /\ store.pc = "ready"
    /\ store.calls < MaxCalls
    /\ store' = Issue("update",
                      "UPDATE " \o Sanitize(store.tableName)
                      \o " SET metadata = metadata || $1 WHERE id = $2", <<"{}", "id">>, ok)
    /\ UNCHANGED <<pc, State, gen, queries, qtask, allResults, searchResults,
                   relevantItems, task, semaphore, summaries, hook, runResult,
                   reflection, stats, claims, ctx, job, chat, mcp>>

\* GetContentByMetadata, lines 184-188: the filter is compiled; an error of
\* the compiler is returned.
GetContentByMetadataBuild ==
    /\ store.pc = "ready"
    /\ store.calls < MaxCalls
    /\ LET built == buildMetadataQuery(store.filter, <<>>)
       IN store' = IF built.err # "nil"
                   THEN [store EXCEPT !.pc = "returned",
                                      !.calls = @ + 1,
                                      !.whereClause = "",
                                      !.args = built.args,
                                      !.err = "failed to build metadata query: " \o built.err]
                   ELSE [store EXCEPT !.pc = "query",
                                      !.whereClause = built.sql,
                                      !.args = built.args]
    /\ UNCHANGED <<pc, State, gen, queries, qtask, allResults, searchResults,
                   relevantItems, task, semaphore, summaries, hook, runResult,
                   reflection, stats, claims, ctx, job, chat, mcp>>

\* GetContentByMetadata, lines 190-222: the query is issued with the compiled
\* clause and its arguments.
GetContentByMetadataQuery(ok) ==
    /\ store.pc = "query"
    /\ store' = [Issue("by metadata",
                       "SELECT id, content, metadata FROM " \o Sanitize(store.tableName)
                       \o " WHERE " \o store.whereClause, store.args, ok)
                   EXCEPT !.pc = "returned"]
    /\ UNCHANGED <<pc, State, gen, queries, qtask, allResults, searchResults,
                   relevantItems, task, semaphore, summaries, hook, runResult,
                   reflection, stats, claims, ctx, job, chat, mcp>>

InitStoreWith(stores) ==
    /\ pc = "store"
    /\ State = NewState(0)
    /\ gen = IdleGen
    /\ queries = <<>>
    /\ qtask = NoTasks
    /\ allResults = <<>>
    /\ searchResults = <<>>
    /\ relevantItems = <<>>
    /\ task = NoTasks
    /\ semaphore = 0
    /\ summaries = <<>>
    /\ hook = [calls |-> 0, last |-> NewState(0)]
    /\ runResult = [err |-> "nil", report |-> ""]
    /\ reflection = NoReflection
    /\ stats = IdleStats
    /\ claims = [u \in {} |-> 0]
    /\ ctx = "live"
    /\ job = NoJob
    /\ chat = NoChat
    /\ store \in stores
    /\ mcp = NoSessions

\* The filters the store's GetContentByMetadata is called with when the
\* collection name is what varies: one without conditions, one with a
\* condition, one the compiler rejects.
StoreFilters ==
    { <<>>,
      <<Entry("source", Scalar("\"doc1\""))>>,
      <<Entry("$or", Scalar("\"invalid\""))>> }

\* The store under every collection name.
InitStore == InitStoreWith({NewStore(name, filter) : name \in TableNames, filter \in StoreFilters})

NextStore ==
    \/ \E created, indexed \in BOOLEAN : CreateEmbeddingsTable(created, indexed)
    \/ NewPGVectorStore
    \/ \E ok \in BOOLEAN : AddDocuments(ok)
    \/ \E sourceFilter \in {"", "doc1"}, ok \in BOOLEAN : SimilaritySearch(sourceFilter, ok)
    \/ \E ok \in BOOLEAN : GetContentBySource(ok)
    \/ \E ok \in BOOLEAN : UpdateMetadata(ok)
    \/ GetContentByMetadataBuild
    \/ \E ok \in BOOLEAN : GetContentByMetadataQuery(ok)

SpecStore == InitStore /\ [][NextStore]_vars

\* A constructed store of the default collection and one GetContentByMetadata
\* call on it, for every filter.
InitCompile ==
    InitStoreWith({[NewStore("thesis_db", filter) EXCEPT !.pc = "ready",
                                                         !.tableName = "thesis_db"] :
                   filter \in Filters})

NextCompile ==
    \/ GetContentByMetadataBuild
    \/ \E ok \in BOOLEAN : GetContentByMetadataQuery(ok)

SpecCompile == InitCompile /\ [][NextCompile]_vars

---------------------------------------------------------------------------
(* The /mcp endpoint (pkg/server/handler.go) *)

MaxRequests == 3   \* most requests the endpoint is sent
MaxSessions == 2   \* most session IDs the endpoint generates

\* uuid.New().String(): the n-th ID the server generates.
SessionIDs == <<"s1", "s2", "s3", "s4">>

\* What a client may send as Mcp-Session-Id: nothing, an ID the server
\* generates at some time, or an ID of its own.
SessionHeaders == {""} \cup {SessionIDs[n] : n \in 1..MaxSessions} \cup {"x"}

\* The methods of the requests: the five the handler tells apart.
Methods == {"initialize", "tools/list", "tools/call", "ping", "other"}

\* A lookup that finds every ID.
SessionExistsAlways(sessions, sessionID) == TRUE

\* Lines 136-138: _, exists := mcpSessions[sessionID]
SessionExists(sessions, sessionID) == sessionID \in sessions

Reply(method, header, status, code, respHeader, dispatched) ==
    [method |-> method, header |-> header, status |-> status, code |-> code,
     respHeader |-> respHeader, dispatched |-> dispatched]

\* MCPHandler (lines 76-173) on one request; toolRun tells whether a
\* dispatched tools/call gets as far as running its tool (lines 226-298).
MCPHandler(parsed, method, sessionID, toolRun) ==
    /\ pc = "mcp"
    /\ mcp.requests < MaxRequests
    /\ (method = "initialize" /\ sessionID = "") => mcp.generated < MaxSessions
    /\ mcp' =
         LET served == [mcp EXCEPT !.requests = @ + 1]
         IN IF ~parsed
            THEN [served EXCEPT !.last = Reply("unparsed", sessionID, 400, -32700, "", FALSE)]
            ELSE IF method = "initialize"
            THEN IF sessionID = ""
                 THEN LET id == SessionIDs[mcp.generated + 1]
                      IN [served EXCEPT !.generated = @ + 1,
                                        !.sessions = @ \cup {id},
                                        !.last = Reply(method, sessionID, 200, 0, id, FALSE)]
                 ELSE [served EXCEPT !.last = Reply(method, sessionID, 200, 0, "", FALSE)]
            ELSE IF sessionID = ""
            THEN [served EXCEPT !.last = Reply(method, sessionID, 400, -32000, "", FALSE)]
            ELSE IF ~SessionExists(mcp.sessions, sessionID)
            THEN [served EXCEPT !.last = Reply(method, sessionID, 400, -32000, "", FALSE)]
            ELSE CASE method = "tools/list" ->
                        [served EXCEPT !.last = Reply(method, sessionID, 200, 0, "", TRUE)]
                   [] method = "tools/call" ->
                        [served EXCEPT !.toolRuns = IF toolRun THEN @ + 1 ELSE @,
                                       !.last = Reply(method, sessionID, 200,
                                                      IF toolRun THEN 0 ELSE -32602, "", TRUE)]
                   [] method = "ping" ->
                        [served EXCEPT !.last = Reply(method, sessionID, 200, 0, "", TRUE)]
                   [] OTHER ->
                        [served EXCEPT !.last = Reply(method, sessionID, 200, -32601, "", TRUE)]
    /\ UNCHANGED <<pc, State, gen, queries, qtask, allResults, searchResults,
                   relevantItems, task, semaphore, summaries, hook, runResult,
                   reflection, stats, claims, ctx, job, chat, store>>

InitMcp ==
    /\ pc = "mcp"
    /\ State = NewState(0)
    /\ gen = IdleGen
    /\ queries = <<>>
    /\ qtask = NoTasks
    /\ allResults = <<>>
    /\ searchResults = <<>>
    /\ relevantItems = <<>>
    /\ task = NoTasks
    /\ semaphore = 0
    /\ summaries = <<>>
    /\ hook = [calls |-> 0, last |-> NewState(0)]
    /\ runResult = [err |-> "nil", report |-> ""]
    /\ reflection = NoReflection
    /\ stats = IdleStats
    /\ claims = [u \in {} |-> 0]
    /\ ctx = "live"
    /\ job = NoJob
    /\ chat = NoChat
    /\ store = NoStore
    /\ mcp = NoSessions

NextMcp ==
    \E parsed \in BOOLEAN, method \in Methods, sessionID \in SessionHeaders,
       toolRun \in BOOLEAN :
        MCPHandler(parsed, method, sessionID, toolRun)

SpecMcp == InitMcp /\ [][NextMcp]_vars

---------------------------------------------------------------------------
(* Properties of acquireAndIndexPhase (SpecAcquire) *)

\* How many tasks passed the claim step for URL u.
ClaimedCount(u) == IF u \in DOMAIN claims THEN claims[u] ELSE 0

\* How many entries State.IndexedItems holds for URL u.
EntriesFor(u) ==
    Cardinality({i \in 1..Len(State.IndexedItems) : State.IndexedItems[i].URL = u})

\* C1: the check of ProcessedURLs and the marking of the URL are one step
\* under State.Mu, so of the tasks that race for one URL at most one passes
\* the claim step, and no URL is recorded more than once: the processed URLs
\* are the claimed ones, a URL processed before the phase is claimed by no
\* task, and every entry of IndexedItems belongs to a claim.
C1_OneClaimPerURL ==
    /\ DOMAIN claims = State.ProcessedURLs
    /\ \A u \in DOMAIN claims : claims[u] <= 1
    /\ \A t1, t2 \in DOMAIN task :
          (t1 # t2 /\ task[t1].item.URL = task[t2].item.URL)
              => ~(task[t1].claimed /\ task[t2].claimed)
    /\ \A t \in DOMAIN task :
          task[t].claimed => task[t].item.URL \in State.ProcessedURLs
    /\ \A i \in 1..Len(State.IndexedItems) :
          /\ EntriesFor(State.IndexedItems[i].URL) = 1
          /\ ClaimedCount(State.IndexedItems[i].URL) = 1

\* Two tasks of one URL have both returned: one had claimed the URL and
\* recorded it, the other skipped it.
C1_Witness ==
    \E t1, t2 \in DOMAIN task :
        /\ t1 # t2
        /\ task[t1].item.URL = task[t2].item.URL
        /\ task[t1].pc = "done" /\ task[t2].pc = "done"
        /\ task[t1].claimed /\ ~task[t2].claimed
        /\ EntriesFor(task[t1].item.URL) = 1

\* The tasks that hold a slot of the semaphore: past the send on the channel
\* and before their return.
Holding ==
    {t \in DOMAIN task :
        task[t].pc \in {"lock", "check", "scrape", "index", "relock", "record", "local"}}

\* C5: at most three tasks are past the semaphore at any time, whatever the
\* number of items; the others wait at the send.
C5_AtMostThreeInFlight ==
    /\ Cardinality(Holding) <= SemaphoreWidth
    /\ semaphore = Cardinality(Holding)

\* Three tasks are scraping or indexing while a fourth waits for a slot.
C5_Witness ==
    /\ Cardinality({t \in DOMAIN task : task[t].pc \in {"scrape", "index"}}) = SemaphoreWidth
    /\ \E t \in DOMAIN task : task[t].pc = "start"

\* The text a task summarises: the scraped text, or the snippet when there is
\* nothing to scrape or scraping failed.
ExpectedText(t) ==
    IF task[t].scraped = "ok" THEN PdfText(task[t].item.URL) ELSE task[t].item.Snippet

\* The summary a task owes to AccumulatedFacts.
ExpectedSummary(t) ==
    [Source |-> task[t].item.Title, Summary |-> task[t].item.Snippet,
     Excerpts |-> Excerpt(ExpectedText(t))]

\* How many entries of seq equal x.
Occurrences(seq, x) == Cardinality({i \in 1..Len(seq) : seq[i] = x})

\* C10: a failure of scraping, splitting, embedding or inserting stops
\* neither the task nor the phase: every task that claimed its URL and is past
\* the record step has its item in IndexedItems and its summary (with the
\* snippet as excerpt when scraping failed) in AccumulatedFacts, whether or not
\* its chunks were inserted, and the phase fails only before any task started.
C10_FailuresStillRecorded ==
    /\ \A t \in DOMAIN task :
          (task[t].claimed /\ task[t].pc \in {"local", "done"})
              => /\ Occurrences(State.IndexedItems, task[t].item) = 1
                 /\ Occurrences(State.AccumulatedFacts, ExpectedSummary(t)) = 1
    /\ \A t \in DOMAIN task :
          (task[t].pc = "done" /\ task[t].claimed)
              => Occurrences(summaries, ExpectedSummary(t)) = 1
    /\ pc = "failed" => (task = NoTasks /\ summaries = <<>>)

\* A task whose scrape failed and whose chunks were not inserted has returned
\* with its item and its snippet summary recorded.
C10_Witness ==
    \E t \in DOMAIN task :
        /\ task[t].pc = "done" /\ task[t].claimed
        /\ task[t].scraped = "error" /\ ~task[t].inserted
        /\ Occurrences(State.IndexedItems, task[t].item) = 1
        /\ \E i \in 1..Len(State.AccumulatedFacts) :
              /\ State.AccumulatedFacts[i].Source = task[t].item.Title
              /\ State.AccumulatedFacts[i].Excerpts = task[t].item.Snippet

---------------------------------------------------------------------------
(* Properties of Run (Spec) *)

\* C2: the iteration counter never exceeds MaxIterations, in the state and in
\* every snapshot handed to OnStateUpdate; a run that is not stopped earlier
\* ends with the counter equal to the cap.
C2_IterationWithinCap ==
    /\ State.Iteration <= State.MaxIterations
    /\ hook.last.Iteration <= hook.last.MaxIterations

\* A run with a cap of MaxIterBound has returned its report after using every
\* iteration.
C2_Witness ==
    /\ pc = "done"
    /\ State.MaxIterations = MaxIterBound
    /\ State.Iteration = State.MaxIterations
    /\ hook.last.Iteration = State.MaxIterations

\* C3: when the reflection LLM never answers STOP and no phase fails, Run
\* leaves the loop only after exactly MaxIterations iterations (as many plan
\* phases), and then calls the report LLM exactly once.
C3_RunsToCapThenReports ==
    /\ stats.reports <= 1
    /\ ((pc = "report" \/ stats.reports = 1) /\ ~stats.stop)
          => /\ stats.plans = State.MaxIterations
             /\ State.Iteration = State.MaxIterations
    /\ pc = "done" => stats.reports = 1
    /\ pc \in {"init", "loop", "plan", "source", "sourced", "filter", "filtered",
               "acquire", "reflect", "reflected"} => stats.reports = 0

\* A run of MaxIterBound iterations that was never told to stop has reported.
C3_Witness ==
    /\ pc = "done"
    /\ ~stats.stop
    /\ State.MaxIterations = MaxIterBound
    /\ stats.plans = MaxIterBound
    /\ stats.reflects = MaxIterBound - 1
    /\ stats.reports = 1

\* The validator of the phase whose generateWithRetry call is running.
Validates(content) ==
    IF pc = "plan" THEN planValidator(content) = "nil"
    ELSE filterValidator(content) = "nil"

\* C4: generateWithRetry makes at most three attempts, logs a warning before
\* every attempt but the first, returns the content of the first attempt that
\* the LLM answers and the validator accepts, and fails after the third
\* failed attempt.
C4_ThreeAttempts ==
    /\ gen.calls <= maxRetries
    /\ gen.status = "running" => (gen.calls = gen.i /\ gen.i < maxRetries)
    /\ gen.status = "ok" => (gen.calls = gen.i + 1 /\ Validates(gen.content))
    /\ gen.status = "failed" => (gen.calls = maxRetries /\ gen.i = maxRetries)
    /\ gen.status # "idle" => gen.warns = (IF gen.calls = 0 THEN 0 ELSE gen.calls - 1)

\* planPhase's call has succeeded at the third attempt, after two warnings.
C4_Witness ==
    /\ pc = "plan"
    /\ gen.status = "ok"
    /\ gen.calls = maxRetries
    /\ gen.warns = maxRetries - 1
    /\ Len(gen.content.queries) > 0

\* C8: when Run has returned, every goroutine of acquireAndIndexPhase has
\* returned and the state is complete: IndexedItems holds one entry for each
\* processed URL and none else, and AccumulatedFacts one summary per entry.
C8_StateCompleteAtReturn ==
    pc \in {"done", "failed"} =>
        /\ task = NoTasks
        /\ DOMAIN claims = State.ProcessedURLs
        /\ \A u \in State.ProcessedURLs : claims[u] = 1
        /\ Len(State.IndexedItems) = Cardinality(State.ProcessedURLs)
        /\ Len(State.AccumulatedFacts) = Len(State.IndexedItems)
        /\ \A u \in State.ProcessedURLs : EntriesFor(u) = 1
        /\ \A i \in 1..Len(State.IndexedItems) :
              State.IndexedItems[i].URL \in State.ProcessedURLs

\* Run has returned its report with two sources recorded.
C8_Witness ==
    /\ pc = "done"
    /\ Len(State.IndexedItems) = 2
    /\ Cardinality(State.ProcessedURLs) = 2

\* The cap is reached: reflectPhase answers without calling the LLM.
HardLimitReached == State.Iteration >= State.MaxIterations

\* C9: after a reflection that returned no error, Run leaves the loop when
\* the iteration cap is reached or the LLM's answer holds "stop" in any case,
\* and otherwise goes to the loop head, where the next iteration begins.
C9_StopOrContinue ==
    [][(pc = "reflected" /\ reflection.err = "nil")
          => IF HardLimitReached \/ reflection.content \in StopTexts
             THEN pc' = "report"
             ELSE pc' = "loop" /\ State'.Iteration < State'.MaxIterations]_vars

\* The run left the loop before the cap because the LLM answered with a
\* "stop" that is not upper case.
C9_Witness ==
    /\ pc = "report"
    /\ stats.stop
    /\ State.Iteration < State.MaxIterations
    /\ stats.reflects = State.Iteration

---------------------------------------------------------------------------
(* Properties of sourcePhase (SpecSource) and of filterPhase (SpecFilter) *)

Titles(seq) == {seq[i].Title : i \in 1..Len(seq)}

\* The first element of seq with the title.
FirstWithTitle(seq, title) ==
    seq[CHOOSE i \in 1..Len(seq) :
            /\ seq[i].Title = title
            /\ \A j \in 1..(i - 1) : seq[j].Title # title]

\* C6: whatever the queries and the order in which their goroutines append,
\* the output of sourcePhase holds every title a successful query returned
\* exactly once, each with the first result of that title in the collected
\* list, and no two results of the output share a title.
C6_DedupByTitle ==
    pc = "sourced" =>
        /\ \A i, j \in 1..Len(searchResults) :
              i # j => searchResults[i].Title # searchResults[j].Title
        /\ Titles(searchResults) =
              UNION {Titles(qtask[i].parsedResults) : i \in {k \in DOMAIN qtask : ~qtask[k].err}}
        /\ \A i \in DOMAIN qtask : Range(qtask[i].parsedResults) \subseteq Range(allResults)
        /\ \A k \in 1..Len(searchResults) :
              searchResults[k] = FirstWithTitle(allResults, searchResults[k].Title)

\* Two queries returned results of one title and different URLs, the goroutine
\* of the second query appended first, and the output holds its result only.
C6_Witness ==
    /\ pc = "sourced"
    /\ Len(qtask) = 2
    /\ \E i, j \in 1..Len(allResults) :
          /\ i < j
          /\ allResults[i] \in Range(qtask[2].parsedResults)
          /\ allResults[i] \notin Range(qtask[1].parsedResults)
          /\ allResults[j] \in Range(qtask[1].parsedResults)
          /\ allResults[i].Title = allResults[j].Title
          /\ allResults[i].URL # allResults[j].URL
          /\ allResults[i] \in Range(searchResults)
          /\ allResults[j] \notin Range(searchResults)

RECURSIVE KeptInRange(_, _)
\* The candidates a score list selects when every entry with an id outside
\* 0..Len(results)-1 or a score under the threshold is dropped.
KeptInRange(results, scores) ==
    IF scores = <<>> THEN <<>>
    ELSE LET item == Head(scores)
             rest == KeptInRange(results, Tail(scores))
         IN IF item.score >= RelevanceThreshold /\ item.id >= 0 /\ item.id < Len(results)
            THEN <<results[item.id + 1]>> \o rest
            ELSE rest

\* C7: filterPhase keeps results[i] iff the score list has an entry with
\* id i in range and a score of at least 7, drops every other entry, an entry
\* with a negative id included, and returns normally.
C7_KeepsInRangeOnly ==
    /\ pc # "panic"
    /\ (pc = "filtered" /\ gen.status = "ok")
          => relevantItems = KeptInRange(searchResults, gen.content.scores)

---------------------------------------------------------------------------
(* Properties of the failure paths of Run and of the job (Spec, SpecJob) *)

\* The error-level log entries of the job that carry the message.
ErrorLogs(message) ==
    {i \in 1..Len(job.logs) :
        job.logs[i].level = "ERROR" /\ job.logs[i].message = message}

C12_ReflectionFailureIsFatal ==
    [][/\ (pc = "reflect" /\ pc' = "reflected" /\ reflection'.err # "nil")
             => /\ stats'.reflects = stats.reflects + 1
                /\ stats'.reflects = State.Iteration
       /\ (pc = "reflected" /\ reflection.err # "nil")
             => /\ pc' = "failed"
                /\ runResult'.err = "reflection failed"
                /\ stats' = stats
       /\ runResult'.err = "reflection failed"
             => (pc' = "failed" /\ stats'.reports = 0 /\ runResult'.report = "")]_vars

\* Run has returned the reflection error of its first iteration.
C12_Witness ==
    /\ pc = "failed"
    /\ runResult.err = "reflection failed"
    /\ State.Iteration = 1
    /\ stats.reflects = 1
    /\ stats.reports = 0

\* C13: a job whose worker has returned is completed with a report, or failed
\* with an error-level log entry, also when the database rejects a write of
\* the worker.
C13_ReturnedJobIsTerminal ==
    pc = "returned" =>
        \/ job.status = "completed" /\ job.report.set
        \/ job.status = "failed" /\ \E i \in 1..Len(job.logs) : job.logs[i].level = "ERROR"

---------------------------------------------------------------------------
(* Properties of the shared state and of the hook (SpecAcquire, Spec) *)

\* The fields of the state that State.Mu protects.
Protected(state) ==
    <<state.ProcessedURLs, state.AccumulatedFacts, state.IndexedItems>>

\* C15: ProcessedURLs, AccumulatedFacts and IndexedItems are written only by
\* the task that holds State.Mu, and the main goroutine reads them (for the
\* hook, the plan prompt and the report) only when no acquisition task is
\* running, so no access outside the mutex is concurrent with a write.
C15_NoUnsynchronisedAccess ==
    [][/\ Protected(State') # Protected(State)
             => /\ State.Mu \in DOMAIN task
                /\ task[State.Mu].pc \in {"check", "record"}
                /\ task'[State.Mu].pc # task[State.Mu].pc
                /\ \A t \in DOMAIN task \ {State.Mu} : task'[t] = task[t]
       /\ (hook' # hook \/ (pc = "acquire" /\ pc' # "acquire"))
             => \A t \in DOMAIN task : task[t].pc = "done"]_vars

\* The hook has read the state after four tasks, two of them recording, have
\* all returned.
C15_Witness ==
    /\ pc = "reflect"
    /\ hook.calls > 2 * (State.Iteration - 1) + 2
    /\ Len(hook.last.IndexedItems) >= 2
    /\ Len(summaries) >= 2

\* C16: the state handed to OnStateUpdate is a deep copy: what the engine
\* does after the call does not alter a snapshot that was delivered.
C16_SnapshotIsDeepCopy ==
    hook.calls > 0 => SnapshotNow = hook.last

\* C17: from one snapshot delivered to OnStateUpdate to the next, Iteration
\* does not decrease and ProcessedURLs loses no URL.
C17_SnapshotsMonotone ==
    [][hook' # hook
          => /\ hook'.calls = hook.calls + 1
             /\ hook'.last.Iteration >= hook.last.Iteration
             /\ hook.last.ProcessedURLs \subseteq hook'.last.ProcessedURLs]_vars

\* The hook has been called in the second iteration, after URLs were
\* processed in the first.
C17_Witness ==
    /\ hook.calls >= 4
    /\ hook.last.Iteration = 2
    /\ hook.last.ProcessedURLs # {}

---------------------------------------------------------------------------
(* Properties of cancellation (SpecCancel) *)

\* C18: once the context is cancelled, a generateWithRetry call that has made
\* an attempt starts no further one: a cancellation is not answered by a
\* retry.
C18_NoRetryAfterCancel ==
    [][(ctx = "cancelled" /\ gen.status = "running" /\ gen.calls >= 1)
          => gen'.calls = gen.calls]_vars

\* C19: after the context is cancelled, no acquisition task inserts documents
\* or appends to AccumulatedFacts or IndexedItems.
C19_TasksAbandonAfterCancel ==
    [][ctx = "cancelled"
          => /\ State'.AccumulatedFacts = State.AccumulatedFacts
             /\ State'.IndexedItems = State.IndexedItems
             /\ \A t \in DOMAIN task \cap DOMAIN task' :
                   task'[t].inserted = task[t].inserted]_vars

---------------------------------------------------------------------------
(* Properties of SendMessage (SpecChat, SpecChatFaulty) *)

\* The rows this call added to the conversation's messages.
AddedRows == SubSeq(chat.messages, chat.prior + 1, Len(chat.messages))

\* How many of them have the given role.
Added(role) == Cardinality({i \in 1..Len(AddedRows) : AddedRows[i].role = role})

\* The stream ran to completion: its last event is done.
StreamCompleted ==
    /\ chat.pc = "returned"
    /\ chat.emitted # <<>>
    /\ chat.emitted[Len(chat.emitted)].Type = "done"

\* C20: a SendMessage call that returned a stream has persisted exactly one
\* user message, and once the stream is over it has persisted exactly one
\* model message if the stream ran to completion and none otherwise.
C20_OneUserOneModelMessage ==
    chat.pc \in {"iterator", "stream", "persist", "done", "returned"}
        => /\ Added("user") = 1
           /\ Added("model") <= 1
           /\ chat.pc = "returned"
                 => Added("model") = IF StreamCompleted THEN 1 ELSE 0

\* The events the consumer was handed, the terminal one left out.
Delivered == SelectSeq(chat.emitted, LAMBDA e : e.Type \notin {"done", "error"})

\* The stream was abandoned: the consumer stopped or the agent gave an error.
Abandoned ==
    \/ chat.stopped
    \/ \E i \in 1..Len(chat.emitted) : chat.emitted[i].Type = "error"

\* C21: a model message is written, and updated_at bumped, only when the
\* agent's run ended without error and the consumer accepted every content,
\* tool_call and tool_result event; after a consumer that stopped or an agent
\* error the call has persisted no model message and bumped nothing.
C21_ModelSavedOnlyAfterCleanStream ==
    /\ [](Abandoned => Added("model") = 0 /\ chat.updated_at = 0)
    /\ [][(chat.pc # "idle" /\ chat'.messages # chat.messages)
            \/ chat'.updated_at # chat.updated_at
          => /\ chat.pc = "persist"
             /\ ~Abandoned
             /\ chat.pending = <<>>
             /\ Delivered = chat.produced
             /\ chat'.messages = Append(chat.messages,
                    [id |-> Len(chat.messages) + 1, role |-> "model",
                     content |-> chat.finalResponse,
                     created_at |-> Len(chat.messages) + 1])]_vars

\* A clean stream of two events has been saved and the conversation bumped.
C21_Witness ==
    /\ Added("model") = 1
    /\ chat.updated_at = 1
    /\ Len(chat.produced) >= 2
    /\ chat.messages[Len(chat.messages)].content # ""

\* The positions of chat.emitted that hold a terminal event.
TerminalAt == {i \in 1..Len(chat.emitted) : chat.emitted[i].Type \in {"done", "error"}}

\* C22: a stream holds at most one terminal event (done or error) and it is
\* the last one; the iterator has returned once it is emitted, and a stream
\* whose consumer never stopped ends with exactly one.
C22_OneTerminalEventLast ==
    /\ TerminalAt \subseteq {Len(chat.emitted)}
    /\ TerminalAt # {} => chat.pc = "returned"
    /\ (chat.pc = "returned" /\ ~chat.stopped) => Cardinality(TerminalAt) = 1

\* A stream consumed to its end that closed with error after an event.
C22_Witness ==
    /\ chat.pc = "returned"
    /\ ~chat.stopped
    /\ Len(chat.emitted) >= 2
    /\ chat.emitted[Len(chat.emitted)].Type = "error"

\* C23: the content, tool_call and tool_result events handed to the consumer
\* are, at every moment, the first ones the agent's parts gave rise to, in
\* that order, and done comes after all of them.
C23_EventsInAgentOrder ==
    /\ Len(Delivered) <= Len(chat.produced)
    /\ Delivered = SubSeq(chat.produced, 1, Len(Delivered))
    /\ \A i \in 1..Len(chat.emitted) :
          chat.emitted[i].Type = "done"
              => /\ i = Len(chat.produced) + 1
                 /\ SubSeq(chat.emitted, 1, i - 1) = chat.produced

\* A stream that delivered events of two different types and then done.
C23_Witness ==
    /\ Len(chat.emitted) >= 3
    /\ chat.emitted[Len(chat.emitted)].Type = "done"
    /\ chat.emitted[1].Type # chat.emitted[2].Type

\* The rows of the conversation other than the one this call saved, as the
\* table holds them when the history is read.
OtherRows == SelectSeq(chat.history, LAMBDA row : row.id # chat.userMsgID)

\* The author a stored role is replayed under.
AuthorOf(role) == IF role = "model" THEN "research_helper" ELSE "user"

\* C24: once the history is replayed, the session holds one event for every
\* persisted message other than this call's user message, oldest first, a
\* model message under author research_helper and a user message under author
\* user, each with the message's content; the row of the new user message is
\* in history once and in the session not at all, so the agent gets it only as
\* the content passed to the run.
C24_SessionReplaysOtherMessages ==
    chat.pc \in {"runner", "iterator", "stream", "persist", "done", "returned"}
        => /\ Len(chat.history) = chat.prior + 1
           /\ Len(chat.session) = chat.prior
           /\ \A i \in 1..Len(chat.session) :
                 /\ chat.messages[i].created_at = i
                 /\ chat.session[i].text = chat.messages[i].content
                 /\ chat.session[i].role = chat.messages[i].role
                 /\ chat.session[i].author = AuthorOf(chat.messages[i].role)
           /\ Cardinality({i \in 1..Len(chat.history) :
                              chat.history[i].id = chat.userMsgID}) = 1
           /\ Len(OtherRows) = Len(chat.session)

\* A conversation of a user and a model message has been replayed.
C24_Witness ==
    /\ chat.pc = "iterator"
    /\ Len(chat.session) >= 2
    /\ \E i, j \in 1..Len(chat.session) :
          /\ chat.session[i].author = "user"
          /\ chat.session[j].author = "research_helper"

\* C25: after a stream that completed, a title task has been started iff the
\* conversation held at most two messages before this call's user message
\* was saved.
C25_TitleIffAtMostTwoPrior ==
    StreamCompleted => (chat.titles = 1 <=> chat.prior <= 2)

---------------------------------------------------------------------------
(* Properties of the vector store (SpecStore, SpecCompile) *)

\* C26: every SQL statement issued names a collection that matched
\* ^[a-z_][a-zA-Z0-9_]{0,62}$, the statements of the table's creation
\* included.
C26_OnlyValidNamesReachSQL ==
    \A i \in 1..Len(store.issued) : isValidTableName(store.issued[i].table)

\* The filter of the call has been compiled without an error.
Compiled ==
    \/ store.pc = "query"
    \/ store.pc = "returned" /\ store.issued # <<>>

\* The compiler has rejected the filter of the call.
BuildFailed ==
    /\ store.pc = "returned"
    /\ Len(store.err) >= 30
    /\ SubSeq(store.err, 1, 30) = "failed to build metadata query"

StartsWith(s, t) == Len(s) >= Len(t) /\ SubSeq(s, 1, Len(t)) = t

Drop(s, n) == SubSeq(s, n + 1, Len(s))

RECURSIVE DropDigits(_)
DropDigits(s) ==
    IF s # "" /\ CharAt(s, 1) \in DigitChars THEN DropDigits(Drop(s, 1)) ELSE s

\* The fixed tokens of the compiled text, the placeholder apart.
FixedTokens == {"TRUE", "NOT ", " AND ", " OR ", "(", ")"}

\* s is a concatenation of fixed tokens and of `metadata @> $n`.
RECURSIVE FixedTokensOnly(_)
FixedTokensOnly(s) ==
    IF s = "" THEN TRUE
    ELSE IF \E t \in FixedTokens : StartsWith(s, t)
    THEN LET t == CHOOSE t \in FixedTokens : StartsWith(s, t)
         IN FixedTokensOnly(Drop(s, Len(t)))
    ELSE IF StartsWith(s, "metadata @> $") /\ DropDigits(Drop(s, 13)) # Drop(s, 13)
    THEN FixedTokensOnly(DropDigits(Drop(s, 13)))
    ELSE FALSE

\* Another plain key for a plain key; the operators stay.
OtherKey(key) ==
    CASE key \in OperatorKeys -> key
      [] key = "a" -> "b"
      [] key = "b" -> "a"
      [] key = "c" -> "a2"
      [] OTHER -> key \o "2"

\* The filter of the same tree with every plain key and every value of a
\* plain key replaced by another.
RECURSIVE OtherLeaves(_)
OtherLeaves(entries) ==
    [i \in 1..Len(entries) |->
        LET key == entries[i].key
            value == entries[i].value
        IN IF key \notin OperatorKeys
           THEN Entry(OtherKey(key), Scalar("\"other " \o Marshal(value) \o "\""))
           ELSE IF key = "$not"
           THEN Entry(key, IF value.kind = "object" THEN Object(OtherLeaves(value.items))
                           ELSE value)
           ELSE Entry(key, IF value.kind = "list"
                           THEN List([j \in 1..Len(value.items) |->
                                        IF value.items[j].kind = "object"
                                        THEN Object(OtherLeaves(value.items[j].items))
                                        ELSE value.items[j]])
                           ELSE value)]

\* C27: the text compiled from a filter is made of the fixed tokens TRUE,
\* `metadata @> $n`, NOT, AND, OR and parentheses only; the filter of the same
\* tree with other plain keys and values compiles to the same text, with other
\* parameters; the statement issued is the fixed SELECT followed by that text.
C27_TextFromFixedTokensOnly ==
    Compiled
        => /\ FixedTokensOnly(store.whereClause)
           /\ LET other == buildMetadataQuery(OtherLeaves(store.filter), <<>>)
              IN /\ other.err = "nil"
                 /\ other.sql = store.whereClause
                 /\ Len(other.args) = Len(store.args)
                 /\ \A i \in 1..Len(store.args) : other.args[i] # store.args[i]
           /\ \A i \in 1..Len(store.issued) :
                 store.issued[i].text =
                     "SELECT id, content, metadata FROM \"thesis_db\" WHERE "
                     \o store.whereClause

\* A filter of an operator and two leaves has been compiled and queried.
C27_Witness ==
    /\ store.pc = "returned"
    /\ store.issued # <<>>
    /\ Len(store.args) >= 2
    /\ \E i \in 1..Len(store.filter) : store.filter[i].key \in OperatorKeys

\* The orders in which a range may visit the n keys of a map.
VisitOrders(n) == {p \in [1..n -> 1..n] : \A i, j \in 1..n : p[i] = p[j] => i = j}

\* C27 as stated: the text compiled from a filter is the text compiled from
\* any filter of the same tree with other plain keys and values, whatever the
\* order in which the keys of its map are visited.
C27_SameTreeSameText ==
    Compiled
        => /\ FixedTokensOnly(store.whereClause)
           /\ \A p \in VisitOrders(Len(store.filter)) :
                 LET other == OtherLeaves(store.filter)
                     visited == [i \in 1..Len(other) |-> other[p[i]]]
                 IN buildMetadataQuery(visited, <<>>).sql = store.whereClause

\* The plain key/value entries of a well-formed filter, in the order they are
\* visited: the entries of a map in their order, the items of an operator's
\* list from left to right.
RECURSIVE LeavesOf(_)
RECURSIVE LeavesOfItems(_)

LeavesOfItems(items) ==
    IF items = <<>> THEN <<>>
    ELSE LeavesOf(Head(items).items) \o LeavesOfItems(Tail(items))

LeavesOf(entries) ==
    IF entries = <<>> THEN <<>>
    ELSE LET key == Head(entries).key
             value == Head(entries).value
         IN (CASE key \in {"$and", "$or"} -> LeavesOfItems(value.items)
               [] key = "$not" -> LeavesOf(value.items)
               [] OTHER -> <<Head(entries)>>)
            \o LeavesOf(Tail(entries))

\* strconv.Atoi of a string of digits.
RECURSIVE Atoi(_)
Atoi(s) ==
    IF s = "" THEN 0
    ELSE 10 * Atoi(SubSeq(s, 1, Len(s) - 1))
         + (CHOOSE d \in 0..9 : Digits[d + 1] = CharAt(s, Len(s)))

\* The numbers of the placeholders of a text, from left to right.
RECURSIVE PlaceholdersOf(_)
PlaceholdersOf(s) ==
    IF s = "" THEN <<>>
    ELSE IF CharAt(s, 1) = "$"
    THEN LET rest == DropDigits(Drop(s, 1))
         IN <<Atoi(SubSeq(s, 2, Len(s) - Len(rest)))>> \o PlaceholdersOf(rest)
    ELSE PlaceholdersOf(Drop(s, 1))

\* The filter {$or:[{a:1},{$and:[{b:2},{c:3}]}]}.
NestedFilter ==
    <<Entry("$or", List(<<Object(<<Entry("a", Scalar("1"))>>),
                         Object(<<Entry("$and",
                             List(<<Object(<<Entry("b", Scalar("2"))>>),
                                    Object(<<Entry("c", Scalar("3"))>>)>>))>>)>>))>>

\* C28: a filter that compiles with n plain key/value leaves binds n
\* parameters, the placeholders of its text are $1..$n from left to right,
\* each once, and $i is bound to the JSON encoding of the i-th leaf visited;
\* {$or:[{a:1},{$and:[{b:2},{c:3}]}]} gives
\* ((metadata @> $1) OR (((metadata @> $2) AND (metadata @> $3)))).
C28_PlaceholdersMatchParameters ==
    Compiled
        => LET leaves == LeavesOf(store.filter)
           IN /\ Len(store.args) = Len(leaves)
              /\ PlaceholdersOf(store.whereClause) = [i \in 1..Len(leaves) |-> i]
              /\ \A i \in 1..Len(leaves) :
                    store.args[i] = "{\"" \o leaves[i].key \o "\":"
                                    \o Marshal(leaves[i].value) \o "}"
              /\ store.filter = NestedFilter
                    => /\ store.whereClause =
                            "((metadata @> $1) OR (((metadata @> $2) AND (metadata @> $3))))"
                       /\ store.args = <<"{\"a\":1}", "{\"b\":2}", "{\"c\":3}">>
              /\ \A i \in 1..Len(store.issued) : store.issued[i].args = store.args

\* The nested filter of the specification has been compiled and queried.
C28_Witness ==
    /\ store.filter = NestedFilter
    /\ store.pc = "returned"
    /\ Len(store.issued) = 1
    /\ Len(store.issued[1].args) = 3

\* The filter asks, at an operator, for something the compiler cannot read:
\* a $and or $or that is not a list, an item of such a list that is not an
\* object, a $not that is not an object, in the filter or in a filter below an
\* operator.
RECURSIVE Malformed(_)
Malformed(entries) ==
    \E i \in 1..Len(entries) :
        LET key == entries[i].key
            value == entries[i].value
        IN \/ /\ key \in {"$and", "$or"}
              /\ \/ value.kind # "list"
                 \/ \E j \in 1..Len(value.items) :
                       \/ value.items[j].kind # "object"
                       \/ Malformed(value.items[j].items)
           \/ /\ key = "$not"
              /\ \/ value.kind # "object"
                 \/ Malformed(value.items)

\* C29: the compiler fails iff, at some depth, a $and/$or value is not a list,
\* an item of such a list is not an object or a $not value is not an object;
\* when it fails GetContentByMetadata returns the error and issues no query.
C29_FailsIffMalformed ==
    store.pc \in {"query", "returned"}
        => /\ BuildFailed <=> Malformed(store.filter)
           /\ Compiled <=> ~Malformed(store.filter)
           /\ BuildFailed => store.issued = <<>> /\ store.whereClause = ""

\* A filter whose fault lies below an operator has been rejected.
C29_Witness ==
    /\ BuildFailed
    /\ store.issued = <<>>
    /\ Len(store.filter) = 1
    /\ store.filter[1].key = "$not"
    /\ store.filter[1].value.kind = "object"

\* C30: a filter without leaves compiles to a text without placeholders and
\* binds no parameter; {}, {$or: []} and {$and: []} compile to TRUE and
\* {$and: [{}]} to ((TRUE)).
C30_NoLeavesNoParameters ==
    (Compiled /\ LeavesOf(store.filter) = <<>>)
        => /\ store.args = <<>>
           /\ PlaceholdersOf(store.whereClause) = <<>>
           /\ store.filter = <<>> => store.whereClause = "TRUE"
           /\ store.filter \in {<<Entry("$or", List(<<>>))>>, <<Entry("$and", List(<<>>))>>}
                 => store.whereClause = "TRUE"
           /\ store.filter = <<Entry("$and", List(<<Object(<<>>)>>))>>
                 => store.whereClause = "((TRUE))"

\* {$and: [{}]} has been compiled.
C30_Witness ==
    /\ Compiled
    /\ store.filter = <<Entry("$and", List(<<Object(<<>>)>>))>>
    /\ store.whereClause = "((TRUE))"

\* c is one of the characters of the string s.
OneOf(c, s) == \E i \in 1..Len(s) : CharAt(s, i) = c

\* C31: NewPGVectorStore accepts a name iff it has 1 to 63 characters, the
\* first a lowercase ASCII letter or an underscore and every other one an ASCII
\* letter, a digit or an underscore; the name of 63 characters is accepted,
\* the name of 64, the empty name, the name that starts with a digit and the
\* names with a space, a hyphen or a semicolon are rejected.
C31_ValidNamesExactly ==
    store.pc \in {"ready", "rejected"}
        => LET name == store.collection
               accepted == store.pc = "ready"
           IN /\ accepted <=>
                    /\ Len(name) \in 1..63
                    /\ OneOf(CharAt(name, 1), LowerCase \o "_")
                    /\ \A i \in 2..Len(name) :
                          OneOf(CharAt(name, i), LowerCase \o UpperCase \o "0123456789_")
              /\ name = "a" => accepted
              /\ (Len(name) = 63 /\ \A i \in 1..63 : OneOf(CharAt(name, i), LowerCase \o UpperCase \o "0123456789_"))
                    => accepted
              /\ Len(name) \in {0, 64} => ~accepted
              /\ name = "1collection" => ~accepted
              /\ (\E i \in 1..Len(name) : CharAt(name, i) \in {" ", "-", ";"}) => ~accepted

\* The name of 63 characters has been accepted.
C31_Witness ==
    /\ store.pc = "ready"
    /\ Len(store.tableName) = 63

---------------------------------------------------------------------------
(* Properties of the /mcp endpoint (SpecMcp) *)

\* The methods that need a session: every one but initialize.
SessionMethods == {"tools/list", "tools/call", "ping", "other"}

\* C32: a tools/list, tools/call, ping or unknown-method request is
\* dispatched exactly when its Mcp-Session-Id header is an ID that an earlier
\* initialize stored; with a missing or unknown ID the reply is 400 with
\* code -32000 and no tool runs. The table holds nothing but the IDs that
\* initialize generated.
C32_DispatchedOnlyWithStoredSession ==
    [][mcp'.requests # mcp.requests /\ mcp'.last.method \in SessionMethods
          => LET r == mcp'.last
                 stored == {SessionIDs[n] : n \in 1..mcp.generated}
             IN /\ mcp.sessions = stored
                /\ mcp'.sessions = mcp.sessions
                /\ r.dispatched <=> r.header \in stored
                /\ r.header \notin stored
                       => /\ r.status = 400
                          /\ r.code = -32000
                          /\ mcp'.toolRuns = mcp.toolRuns]_vars

\* A tools/call that echoes an ID the server has not generated yet is turned
\* away although the table holds another session.
C32_Witness ==
    /\ mcp.last.method = "tools/call"
    /\ mcp.last.header = "s2"
    /\ "s1" \in mcp.sessions
    /\ ~mcp.last.dispatched
    /\ mcp.last.code = -32000

\* C33: a successful initialize reply carries an Mcp-Session-Id response
\* header, and the ID in it is registered in the session table.
C33_InitializeReturnsSessionID ==
    (mcp.last.method = "initialize" /\ mcp.last.status = 200)
        => /\ mcp.last.respHeader # ""
           /\ SessionExists(mcp.sessions, mcp.last.respHeader)

---------------------------------------------------------------------------
(* What a compiled predicate selects (SpecCompile) *)

\* The metadata documents the predicates are evaluated on: flat objects of
\* some of the keys a, b and c with scalar values, a scalar by its JSON text.
DocKeys == {"a", "b", "c"}
DocScalars == {"1", "2", "3", "\"x\""}
Docs == UNION {[keys -> DocScalars] : keys \in SUBSET DocKeys}

\* metadata @> $n on a flat document: the bound parameter is the JSON text of
\* an object of one pair, which the document contains when it holds that key
\* with that value.
ContainsText(doc, jsonBytes) ==
    \E k \in DOMAIN doc : "{\"" \o k \o "\":" \o doc[k] \o "}" = jsonBytes

\* The documents a predicate text selects under the parameters args, read as
\* SQL reads it: NOT binds tighter than AND, AND tighter than OR, parentheses
\* group.  Each parser returns the documents selected by the longest
\* expression of its level at the front of the text, and the text after it.
RECURSIVE SelectOr(_, _)
RECURSIVE SelectAnd(_, _)
RECURSIVE SelectNot(_, _)
RECURSIVE SelectPrimary(_, _)

SelectPrimary(s, args) ==
    IF StartsWith(s, "(")
    THEN LET inner == SelectOr(Drop(s, 1), args)
         IN [docs |-> inner.docs, rest |-> Drop(inner.rest, 1)]
    ELSE IF StartsWith(s, "TRUE")
    THEN [docs |-> Docs, rest |-> Drop(s, 4)]
    ELSE LET after == Drop(s, Len("metadata @> $"))
             rest == DropDigits(after)
             n == Atoi(SubSeq(after, 1, Len(after) - Len(rest)))
         IN [docs |-> {doc \in Docs : n \in 1..Len(args) /\ ContainsText(doc, args[n])},
             rest |-> rest]

SelectNot(s, args) ==
    IF StartsWith(s, "NOT ")
    THEN LET operand == SelectNot(Drop(s, 4), args)
         IN [docs |-> Docs \ operand.docs, rest |-> operand.rest]
    ELSE SelectPrimary(s, args)

SelectAnd(s, args) ==
    LET left == SelectNot(s, args)
    IN IF StartsWith(left.rest, " AND ")
       THEN LET right == SelectAnd(Drop(left.rest, 5), args)
            IN [docs |-> left.docs \cap right.docs, rest |-> right.rest]
       ELSE left

SelectOr(s, args) ==
    LET left == SelectAnd(s, args)
    IN IF StartsWith(left.rest, " OR ")
       THEN LET right == SelectOr(Drop(left.rest, 4), args)
            IN [docs |-> left.docs \cup right.docs, rest |-> right.rest]
       ELSE left

\* The reference semantics of a well-formed filter on a document.
RECURSIVE Holds(_, _)
Holds(entries, doc) ==
    \A i \in 1..Len(entries) :
        LET key == entries[i].key
            value == entries[i].value
        IN CASE key = "$and" ->
                  \A j \in 1..Len(value.items) : Holds(value.items[j].items, doc)
             [] key = "$or" ->
                  \/ value.items = <<>>
                  \/ \E j \in 1..Len(value.items) : Holds(value.items[j].items, doc)
             [] key = "$not" -> ~Holds(value.items, doc)
             [] OTHER ->
                  /\ value.kind = "scalar"
                  /\ key \in DOMAIN doc
                  /\ doc[key] = value.json

\* C34: the predicate compiled from a well-formed filter, evaluated as SQL with
\* its bound parameters, selects exactly the documents on which the filter's
\* reference semantics holds: a plain key is containment of its pair, the
\* keys of an object are a conjunction, $and is all, $or is any, $not is
\* negation, an empty object or list is true; the whole text is consumed.
C34_PredicateMeansFilter ==
    Compiled
        => LET selected == SelectOr(store.whereClause, store.args)
           IN /\ selected.rest = ""
              /\ selected.docs = {doc \in Docs : Holds(store.filter, doc)}

\* A compiled filter whose text nests an AND group in an OR group and which
\* selects some documents and leaves others out.
C34_Witness ==
    /\ Compiled
    /\ store.filter = NestedFilter
    /\ \E doc \in Docs : Holds(store.filter, doc)
    /\ \E doc \in Docs : ~Holds(store.filter, doc)

---------------------------------------------------------------------------
(* The empty-result sentinel in sourcePhase (SpecSource) *)

\* A result built from the sentinel text of SearchArxiv.
FromSentinel(r) == StartsWith(r.Title, "No results found for query: ")

\* C35: a query that SearchArxiv answers with the sentinel "No results found
\* for query: <q>" contributes no SearchResult: none is parsed from the
\* sentinel, none is appended to the shared list, and none is among the
\* candidates sourcePhase returns to the filter phase.
C35_SentinelGivesNoResult ==
    /\ \A i \in DOMAIN qtask :
          \A j \in 1..Len(qtask[i].parsedResults) : ~FromSentinel(qtask[i].parsedResults[j])
    /\ \A j \in 1..Len(allResults) : ~FromSentinel(allResults[j])
    /\ \A j \in 1..Len(searchResults) : ~FromSentinel(searchResults[j])

---------------------------------------------------------------------------
(* Items without a link in acquireAndIndexPhase (SpecAcquire) *)

\* C36: every item of the phase that has an empty URL is acquired from its
\* snippet and recorded: once the tasks have returned, each such item has one
\* entry in IndexedItems and one summary of its title in AccumulatedFacts, two
\* items of different titles included.
C36_EveryItemWithoutLinkRecorded ==
    (task # NoTasks /\ \A t \in DOMAIN task : task[t].pc = "done")
        => \A t \in DOMAIN task :
              task[t].item.URL = ""
                  => /\ Occurrences(State.IndexedItems, task[t].item) = 1
                     /\ Occurrences(State.AccumulatedFacts,
                                    [Source |-> task[t].item.Title,
                                     Summary |-> task[t].item.Snippet,
                                     Excerpts |-> Excerpt(task[t].item.Snippet)]) = 1

---------------------------------------------------------------------------
(* The zero-queries branch of Run (Spec) *)

\* C37: planPhase never returns an empty query list with a nil error: a
\* response whose queries list is empty fails its attempt, so the call of
\* generateWithRetry never succeeds with an empty list, and Run never leaves
\* the loop from planPhase to the report, which is where the zero-queries
\* warning branch goes.
C37_NoEmptyPlan ==
    [][/\ (pc' = "plan" /\ gen'.status = "ok") => Len(gen'.content.queries) > 0
       /\ pc = "plan" => pc' # "report"
       /\ (pc = "plan" /\ pc' = "source") => Len(queries') > 0]_vars

\* planPhase has succeeded on a later attempt, after attempts that failed.
C37_Witness ==
    /\ pc = "plan"
    /\ gen.status = "ok"
    /\ gen.i > 0
    /\ gen.calls = gen.i + 1
    /\ Len(gen.content.queries) > 0

---------------------------------------------------------------------------
(* The last iteration's reflection (Spec) *)

\* C38: in the iteration in which Iteration equals MaxIterations reflectPhase
\* returns stop without an LLM call, so a run of MaxIterations >= 1 makes at
\* most MaxIterations - 1 reflection LLM calls (and never more than one per
\* iteration begun), and Run returns a reflection error only in an iteration
\* before the last.
C38_NoReflectionCallAtCap ==
    [][/\ (pc = "reflect" /\ State.Iteration = State.MaxIterations)
             => /\ pc' = "reflected"
                /\ reflection' = NoReflection
                /\ stats'.reflects = stats.reflects
       /\ (pc = "reflected" /\ State.Iteration = State.MaxIterations)
             => pc' = "report"
       /\ State'.MaxIterations >= 1 => stats'.reflects <= State'.MaxIterations - 1
       /\ stats'.reflects <= State'.Iteration
       /\ runResult'.err = "reflection failed"
             => State'.Iteration < State'.MaxIterations]_vars

\* A run of two iterations has left its loop at the cap after one reflection
\* LLM call, which asked to continue.
C38_Witness ==
    /\ pc = "report"
    /\ State.MaxIterations = 2
    /\ State.Iteration = 2
    /\ stats.reflects = 1
    /\ ~stats.stop
    /\ runResult.err = "nil"

---------------------------------------------------------------------------
(* Termination of acquireAndIndexPhase (SpecAcquireFair) *)

\* C39: under a fair scheduler, with every scrape, embed and insert call
\* returning, the phase terminates whatever the number of items: every
\* goroutine that waits for a slot of the semaphore gets one, and wg.Wait
\* returns with every slot and the state mutex released, the goroutines that
\* found their URL processed included.
C39_PhaseTerminates ==
    /\ (pc = "acquire") ~> (pc = "reflect" /\ semaphore = 0 /\ State.Mu = 0)
    /\ \A t \in 1..AcqTasks :
          (pc = "acquire" /\ t \in DOMAIN task /\ task[t].pc = "start")
              ~> (pc = "acquire" /\ t \in DOMAIN task /\ task[t].pc = "lock")
    /\ [](pc = "reflect" => (semaphore = 0 /\ State.Mu = 0))

\* The phase has returned after more goroutines than the semaphore has slots,
\* one of which returned early because its URL was processed.
C39_Witness ==
    /\ pc = "reflect"
    /\ semaphore = 0
    /\ State.Mu = 0
    /\ Len(summaries) = SemaphoreWidth
    /\ Len(State.IndexedItems) = SemaphoreWidth
    /\ stats.acquires = 1

---------------------------------------------------------------------------
(* SendMessage failing after the user message is saved (SpecChatFaulty) *)

\* C40: a SendMessage call that fails after it has inserted the user message,
\* at the read of the history or at the construction of the runner, returns
\* its error and no event stream; the user message it inserted stays in the
\* table after the messages that were there, and no model message is written.
C40_FailureKeepsUserMessageOnly ==
    (chat.pc = "failed" /\ chat.err \in {"failed to fetch history", "failed to create runner"})
        => /\ chat.emitted = <<>>
           /\ chat.produced = <<>>
           /\ Len(AddedRows) = 1
           /\ AddedRows[1].role = "user"
           /\ AddedRows[1].content = chat.content
           /\ AddedRows[1].id = chat.userMsgID
           /\ Added("model") = 0
           /\ SubSeq(chat.messages, 1, chat.prior) \in PriorMessages(chat.prior)

\* The read of the history of a conversation with earlier messages has failed
\* after the user message was inserted.
C40_Witness ==
    /\ chat.pc = "failed"
    /\ chat.err = "failed to fetch history"
    /\ chat.prior >= 1
    /\ Added("user") = 1

====
